---- MODULE Spec2Model ----
(***************************************************************************)
(* cel2js: a CEL expression is transformed once into a JavaScript arrow    *)
(* function and then evaluated against binding records.  The model keeps   *)
(* the three layers of the repository apart:                               *)
(*   - the value runtime (celAdd, celEq, celSelect, celHas, ...),          *)
(*   - the transformer, which lowers a CEL AST to an ESTree expression,    *)
(*   - the compile driver, whose evaluate closure resolves the bindings,   *)
(*     calls the emitted function and converts the error sentinel.         *)
(* The emitted function is run by a small interpreter of the ESTree nodes  *)
(* the transformer produces (JsEval).                                      *)
(***************************************************************************)
EXTENDS Integers, Sequences, FiniteSets, TLC

VARIABLES
    compiled,           \* the result of compile(): AST, container, program, manifest
    cachedBindingsArg,  \* closure variable of compile(): last bindings argument cached
    cachedBindings,     \* closure variable of compile(): the record derived from it
    call,               \* the last evaluate call: argument, raw result, outcome, trace
    arith,              \* the last direct call of an arithmetic runtime helper
    rt,                 \* the last direct call of another runtime helper: inputs, result
    heap                \* the caller's binding objects: their contents now

vars == <<compiled, cachedBindingsArg, cachedBindings, call, arith, rt, heap>>

-----------------------------------------------------------------------------
(* Bounds of the model *)

\* Width of the modelled int type: the code's int is 64 bits wide
\* (INT64_MIN = -(2^63)); the model keeps the same checks at this width.
IntBits == 4

\* Longest list of entries handed to a list or map constructor.
MaxEntries == 2

\* The longest list a quantifier runs over.
MaxList == 3

\* The longest range celComprehension and the filter loop are called with.
MaxRange == 2

\* Nanoseconds in a second: the code's 1000000000, scaled as the int width is.
NanosPerSecond == 3

\* The longest string handed to duration(string).
MaxDurationString == 5

\* The longest string handed to int(string).
MaxIntString == 4

\* The deepest nesting of ! and ?: in the expressions compiled for them.
MaxNest == 3

\* The most calls of TempAllocator.next() in one compilation.
MaxTemps == 703

-----------------------------------------------------------------------------
(* Values.  JavaScript undefined is the error sentinel. *)

Undef == [t |-> "undefined"]
Null == [t |-> "null"]
BoolV(b) == [t |-> "bool", b |-> b]
IntV(n) == [t |-> "int", n |-> n]
UintV(n) == [t |-> "uint", u |-> n]
DoubleV(n) == [t |-> "double", d |-> n]
StrV(s) == [t |-> "string", s |-> s]
ObjV(f) == [t |-> "object", o |-> f]
CelType(name) == [t |-> "type", name |-> name]

\* The empty plain object {}.
EmptyRec == [k \in {} |-> Undef]

\* The plain object with the single field k.
Rec1(k, v) == [x \in {k} |-> v]

INT64_MIN == -(2 ^ (IntBits - 1))
INT64_MAX == 2 ^ (IntBits - 1) - 1

inInt64Range(v) == v >= INT64_MIN /\ v <= INT64_MAX

isInt(v) == v.t = "int"
isCelUint(v) == v.t = "uint"
isDouble(v) == v.t = "double"
isNumeric(v) == isInt(v) \/ isCelUint(v) \/ isDouble(v)

\* The numeric payload of an int, uint or double value.
toNumber(v) == IF isInt(v) THEN v.n ELSE IF isCelUint(v) THEN v.u ELSE v.d

Abs(n) == IF n < 0 THEN -n ELSE n

\* BigInt division: the quotient truncated toward zero.
BigIntDiv(a, b) ==
    IF (a < 0) = (b < 0) THEN Abs(a) \div Abs(b) ELSE -(Abs(a) \div Abs(b))

-----------------------------------------------------------------------------
(* Runtime: arithmetic helpers.  The value universe of the model has no    *)
(* bytes; its branch falls to the final "return undefined".                *)

UINT64_MAX == 2 ^ IntBits - 1
inUint64Range(v) == v >= 0 /\ v <= UINT64_MAX

DurationV(seconds, nanos) == [t |-> "duration", seconds |-> seconds, nanos |-> nanos]
TimestampV(seconds, nanos) == [t |-> "timestamp", seconds |-> seconds, nanos |-> nanos]

isCelDuration(v) == v.t = "duration"
isCelTimestamp(v) == v.t = "timestamp"

\* The seconds of 0001-01-01T00:00:00Z and of 9999-12-31T23:59:59Z, at the
\* scale of the model.
TIMESTAMP_MIN_SEC == -(2 ^ (IntBits - 2))
TIMESTAMP_MAX_SEC == 2 ^ (IntBits - 1) - 1

durationToNanos(d) == d.seconds * NanosPerSecond + d.nanos

\* BigInt %: the remainder has the sign of the dividend.
BigIntRem(a, b) == a - BigIntDiv(a, b) * b

nanosToValidDuration(totalNanos) ==
    IF totalNanos > INT64_MAX \/ totalNanos < INT64_MIN THEN Undef
    ELSE LET secs == BigIntDiv(totalNanos, NanosPerSecond)
             nanos == BigIntRem(totalNanos, NanosPerSecond)
         IN  IF nanos < 0 /\ secs > 0 THEN DurationV(secs - 1, nanos + NanosPerSecond)
             ELSE IF nanos > 0 /\ secs < 0 THEN DurationV(secs + 1, nanos - NanosPerSecond)
             ELSE DurationV(secs, nanos)

addDurationToTimestamp(ts, dur) ==
    LET sec == ts.seconds + dur.seconds
        nanos == ts.nanos + dur.nanos
        resultSec == IF nanos >= NanosPerSecond THEN sec + 1
                     ELSE IF nanos < 0 THEN sec - 1 ELSE sec
        resultNanos == IF nanos >= NanosPerSecond THEN nanos - NanosPerSecond
                       ELSE IF nanos < 0 THEN nanos + NanosPerSecond ELSE nanos
    IN  IF resultSec < TIMESTAMP_MIN_SEC \/ resultSec > TIMESTAMP_MAX_SEC THEN Undef
        ELSE IF resultSec = TIMESTAMP_MAX_SEC /\ resultNanos > NanosPerSecond - 1 THEN Undef
        ELSE TimestampV(resultSec, resultNanos)

subtractTimestamps(a, b) ==
    nanosToValidDuration((a.seconds - b.seconds) * NanosPerSecond + a.nanos - b.nanos)

celAdd(a, b) ==
    IF isInt(a) /\ isInt(b)
    THEN (IF inInt64Range(a.n + b.n) THEN IntV(a.n + b.n) ELSE Undef)
    ELSE IF isCelUint(a) /\ isCelUint(b)
    THEN (IF inUint64Range(a.u + b.u) THEN UintV(a.u + b.u) ELSE Undef)
    ELSE IF isDouble(a) /\ isDouble(b) THEN DoubleV(a.d + b.d)
    ELSE IF a.t = "string" /\ b.t = "string" THEN StrV(a.s \o b.s)
    ELSE IF a.t = "list" /\ b.t = "list" THEN [t |-> "list", l |-> a.l \o b.l]
    ELSE IF isCelTimestamp(a) /\ isCelDuration(b) THEN addDurationToTimestamp(a, b)
    ELSE IF isCelDuration(a) /\ isCelTimestamp(b) THEN addDurationToTimestamp(b, a)
    ELSE IF isCelDuration(a) /\ isCelDuration(b)
    THEN nanosToValidDuration(durationToNanos(a) + durationToNanos(b))
    ELSE Undef

celSub(a, b) ==
    IF isInt(a) /\ isInt(b)
    THEN (IF inInt64Range(a.n - b.n) THEN IntV(a.n - b.n) ELSE Undef)
    ELSE IF isCelUint(a) /\ isCelUint(b)
    THEN (IF inUint64Range(a.u - b.u) THEN UintV(a.u - b.u) ELSE Undef)
    ELSE IF isDouble(a) /\ isDouble(b) THEN DoubleV(a.d - b.d)
    ELSE IF isCelTimestamp(a) /\ isCelDuration(b)
    THEN LET negDur == nanosToValidDuration(-durationToNanos(b))
         IN  IF negDur = Undef THEN Undef ELSE addDurationToTimestamp(a, negDur)
    ELSE IF isCelTimestamp(a) /\ isCelTimestamp(b) THEN subtractTimestamps(a, b)
    ELSE IF isCelDuration(a) /\ isCelDuration(b)
    THEN nanosToValidDuration(durationToNanos(a) - durationToNanos(b))
    ELSE Undef

\* A celMul that wraps modulo 2^width instead of range-checking.
celMulWrapping(a, b) ==
    IF isInt(a) /\ isInt(b)
    THEN IntV(((a.n * b.n - INT64_MIN) % (2 ^ IntBits)) + INT64_MIN)
    ELSE Undef

celMul(a, b) ==
    IF isInt(a) /\ isInt(b)
    THEN (IF inInt64Range(a.n * b.n) THEN IntV(a.n * b.n) ELSE Undef)
    ELSE IF isCelUint(a) /\ isCelUint(b)
    THEN (IF inUint64Range(a.u * b.u) THEN UintV(a.u * b.u) ELSE Undef)
    ELSE IF isDouble(a) /\ isDouble(b) THEN DoubleV(a.d * b.d)
    ELSE Undef

\* A celDiv that rounds the quotient toward minus infinity.
celDivFlooring(a, b) ==
    IF isInt(a) /\ isInt(b)
    THEN (IF b.n = 0 THEN Undef
          ELSE IF a.n = INT64_MIN /\ b.n = -1 THEN Undef
          ELSE IntV(a.n \div b.n))
    ELSE Undef

\* Double division is left out: the doubles of the model are whole numbers,
\* which division does not keep.
celDiv(a, b) ==
    IF isInt(a) /\ isInt(b)
    THEN (IF b.n = 0 THEN Undef
          ELSE IF a.n = INT64_MIN /\ b.n = -1 THEN Undef
          ELSE IntV(BigIntDiv(a.n, b.n)))
    ELSE IF isCelUint(a) /\ isCelUint(b)
    THEN (IF b.u = 0 THEN Undef ELSE UintV(a.u \div b.u))
    ELSE Undef

celNeg(a) ==
    IF isInt(a) THEN (IF inInt64Range(-a.n) THEN IntV(-a.n) ELSE Undef)
    ELSE IF isDouble(a) THEN DoubleV(-a.d)
    ELSE Undef

-----------------------------------------------------------------------------
(* Runtime: comparison helpers *)

\* -1, 0 or 1.  Both exact integers: compared as bigints; otherwise as
\* numbers.  (The doubles of the model are whole numbers, never NaN.)
numericCompare(a, b) ==
    LET an == toNumber(a)
        bn == toNumber(b)
    IN  IF an < bn THEN -1 ELSE IF an > bn THEN 1 ELSE 0

\* A celEq that refuses operands of different numeric types.
celEqStrictNumeric(a, b) ==
    IF a = Undef \/ b = Undef THEN Undef
    ELSE IF a = b THEN BoolV(TRUE)
    ELSE IF isNumeric(a) /\ isNumeric(b)
    THEN (IF a.t # b.t THEN Undef ELSE BoolV(numericCompare(a, b) = 0))
    ELSE BoolV(FALSE)

\* JavaScript Map, kept as its entries <<key, value>> in insertion order.
\* Keys are matched by SameValueZero: primitives (bigint, number, string,
\* boolean) by value, objects (CelUint, arrays, Maps) by reference; two
\* object keys of the model are never the same reference.
PrimitiveTags == {"undefined", "null", "bool", "int", "double", "string"}

SameValueZero(a, b) == a.t \in PrimitiveTags /\ a = b

JsMapHas(entries, key) ==
    \E i \in 1..Len(entries) : SameValueZero(entries[i][1], key)

JsMapGet(entries, key) ==
    IF JsMapHas(entries, key)
    THEN entries[CHOOSE i \in 1..Len(entries) : SameValueZero(entries[i][1], key)][2]
    ELSE Undef

JsMapSet(entries, key, value) ==
    IF JsMapHas(entries, key)
    THEN [i \in 1..Len(entries) |->
            IF SameValueZero(entries[i][1], key) THEN <<entries[i][1], value>>
            ELSE entries[i]]
    ELSE Append(entries, <<key, value>>)

ListV(l) == [t |-> "list", l |-> l]
MapV(m) == [t |-> "map", m |-> m]

isList(v) == v.t = "list"
isMap(v) == v.t = "map"

RECURSIVE celEq(_, _)
RECURSIVE celEqLists(_, _)
RECURSIVE celEqMapEntries(_, _)
RECURSIVE mapGetSlow(_, _)
RECURSIVE mapHasSlow(_, _)

\* The slow path of mapGet: the value of the first key with celEq(k, key)
\* === true.
mapGetSlow(entries, key) ==
    IF entries = <<>> THEN Undef
    ELSE IF celEq(Head(entries)[1], key) = BoolV(TRUE) THEN Head(entries)[2]
    ELSE mapGetSlow(Tail(entries), key)

mapGet(m, key) ==
    IF JsMapHas(m.m, key) THEN JsMapGet(m.m, key) ELSE mapGetSlow(m.m, key)

mapHasSlow(entries, key) ==
    IF entries = <<>> THEN FALSE
    ELSE IF celEq(Head(entries)[1], key) = BoolV(TRUE) THEN TRUE
    ELSE mapHasSlow(Tail(entries), key)

mapHas(m, key) == JsMapHas(m.m, key) \/ mapHasSlow(m.m, key)

\* The list branch of celEq, lengths equal: the first comparison that is not
\* true decides.
celEqLists(x, y) ==
    IF x = <<>> THEN BoolV(TRUE)
    ELSE LET eq == celEq(Head(x), Head(y))
         IN  IF eq # BoolV(TRUE) THEN eq ELSE celEqLists(Tail(x), Tail(y))

\* The map branch of celEq, sizes equal: the loop over the entries of a.
celEqMapEntries(entries, b) ==
    IF entries = <<>> THEN BoolV(TRUE)
    ELSE LET k == Head(entries)[1]
             v == Head(entries)[2]
             bv == mapGet(b, k)
         IN  IF bv = Undef /\ ~mapHas(b, k) THEN BoolV(FALSE)
             ELSE LET eq == celEq(v, bv)
                  IN  IF eq # BoolV(TRUE) THEN eq ELSE celEqMapEntries(Tail(entries), b)

\* A celEq that reports the error sentinel for operands of different types.
celEqRejectMixed(a, b) ==
    IF a = Undef \/ b = Undef \/ a.t # b.t THEN Undef
    ELSE BoolV(a = b)

\* Deep equality.  a === b on primitives is equality of tag and payload; on
\* two objects the structural branches give what the same reference gives.
celEq(a, b) ==
    IF a = Undef \/ b = Undef THEN Undef
    ELSE IF a = Null /\ b = Null THEN BoolV(TRUE)
    ELSE IF a = Null \/ b = Null THEN BoolV(FALSE)
    ELSE IF a = b /\ a.t \in {"string", "bool", "int", "double"} THEN BoolV(TRUE)
    ELSE IF a.t = "string" THEN BoolV(FALSE)
    ELSE IF b.t = "string" THEN BoolV(FALSE)
    ELSE IF a.t = "bool" \/ b.t = "bool" THEN BoolV(FALSE)
    ELSE IF isNumeric(a) /\ isNumeric(b) THEN BoolV(numericCompare(a, b) = 0)
    ELSE IF isList(a) /\ isList(b)
    THEN (IF Len(a.l) # Len(b.l) THEN BoolV(FALSE) ELSE celEqLists(a.l, b.l))
    ELSE IF isMap(a) /\ isMap(b)
    THEN (IF Len(a.m) # Len(b.m) THEN BoolV(FALSE) ELSE celEqMapEntries(a.m, b))
    ELSE IF a.t = "type" /\ b.t = "type" THEN BoolV(a.name = b.name)
    ELSE BoolV(FALSE)

celNe(a, b) ==
    LET eq == celEq(a, b)
    IN  IF eq = Undef THEN Undef ELSE BoolV(~eq.b)

\* The list loop of celIn: true at the first item with celEq === true.
RECURSIVE celInList(_, _)
celInList(elem, items) ==
    IF items = <<>> THEN FALSE
    ELSE IF celEq(elem, Head(items)) = BoolV(TRUE) THEN TRUE
    ELSE celInList(elem, Tail(items))

\* A celIn that finds only the elements and keys that are the same
\* JavaScript value as elem.
celInSameValue(elem, collection) ==
    IF isList(collection)
    THEN BoolV(\E i \in 1..Len(collection.l) : SameValueZero(collection.l[i], elem))
    ELSE IF isMap(collection) THEN BoolV(JsMapHas(collection.m, elem))
    ELSE Undef

celIn(elem, collection) ==
    IF isList(collection) THEN BoolV(celInList(elem, collection.l))
    ELSE IF isMap(collection) THEN BoolV(mapHas(collection, elem))
    ELSE Undef

\* CelOptional: optional.none() is new CelOptional(undefined, false).
OptionalOf(value) == [t |-> "optional", has |-> TRUE, v |-> value]
OptionalNone == [t |-> "optional", has |-> FALSE, v |-> Undef]
isCelOptional(v) == v.t = "optional"

celOptionalOf(value) == IF value = Undef THEN Undef ELSE OptionalOf(value)

\* celMakeList: undefined if an element is undefined, else the array.
celMakeList(elements) ==
    IF \E i \in 1..Len(elements) : elements[i] = Undef THEN Undef
    ELSE ListV(elements)

\* The loop of celMakeMap over the [key, value] pairs, m the Map so far.
RECURSIVE celMakeMapLoop(_, _)
celMakeMapLoop(entries, m) ==
    IF entries = <<>> THEN MapV(m)
    ELSE LET k == Head(entries)[1]
             v == Head(entries)[2]
         IN  IF isDouble(k) \/ k = Null THEN Undef
             ELSE IF \E i \in 1..Len(m) : celEq(m[i][1], k) = BoolV(TRUE) THEN Undef
             ELSE celMakeMapLoop(Tail(entries), JsMapSet(m, k, v))

celMakeMap(entries) == celMakeMapLoop(entries, <<>>)

\* celMapInsert: a copy of the map with the key set.
celMapInsert(map, key, value) ==
    IF value = Undef THEN Undef
    ELSE IF ~isMap(map) THEN Undef
    ELSE MapV(JsMapSet(map.m, key, value))

\* The loop of celMakeMapOptional over the [key, value, optional] triples.
RECURSIVE celMakeMapOptionalLoop(_, _)
celMakeMapOptionalLoop(entries, m) ==
    IF entries = <<>> THEN MapV(m)
    ELSE LET k == Head(entries)[1]
             v == Head(entries)[2]
             optional == Head(entries)[3]
         IN  IF optional
             THEN IF v = Undef THEN Undef
                  ELSE IF isCelOptional(v)
                  THEN celMakeMapOptionalLoop(Tail(entries),
                          IF v.has THEN JsMapSet(m, k, v.v) ELSE m)
                  ELSE celMakeMapOptionalLoop(Tail(entries), JsMapSet(m, k, v))
             ELSE celMakeMapOptionalLoop(Tail(entries), JsMapSet(m, k, v))

celMakeMapOptional(entries) == celMakeMapOptionalLoop(entries, <<>>)

\* dyn() is the identity.
RECURSIVE celAllLoop(_, _, _)
RECURSIVE celExistsLoop(_, _, _)

\* A loop of all() that gives up at the first predicate error.
celAllErrorWins(list, predicate) ==
    IF ~isList(list) THEN Undef
    ELSE IF \E i \in 1..Len(list.l) :
               /\ predicate[list.l[i]] # BoolV(TRUE)
               /\ \A j \in 1..(i - 1) : predicate[list.l[j]] = BoolV(TRUE)
               /\ predicate[list.l[i]] # BoolV(FALSE)
    THEN Undef
    ELSE IF \E i \in 1..Len(list.l) : predicate[list.l[i]] = BoolV(FALSE)
    THEN BoolV(FALSE)
    ELSE BoolV(TRUE)

\* The for loop of celAll, from the elements still to visit.
celAllLoop(items, predicate, hasError) ==
    IF items = <<>> THEN (IF hasError THEN Undef ELSE BoolV(TRUE))
    ELSE LET result == predicate[Head(items)]
         IN  IF result = BoolV(FALSE) THEN BoolV(FALSE)
             ELSE celAllLoop(Tail(items), predicate, hasError \/ result # BoolV(TRUE))

celAll(list, predicate) ==
    IF ~isList(list) THEN Undef ELSE celAllLoop(list.l, predicate, FALSE)

\* A loop of exists() that gives up at the first predicate error.
celExistsErrorWins(list, predicate) ==
    IF ~isList(list) THEN Undef
    ELSE IF \E i \in 1..Len(list.l) :
               /\ predicate[list.l[i]] # BoolV(FALSE)
               /\ \A j \in 1..(i - 1) : predicate[list.l[j]] = BoolV(FALSE)
               /\ predicate[list.l[i]] # BoolV(TRUE)
    THEN Undef
    ELSE IF \E i \in 1..Len(list.l) : predicate[list.l[i]] = BoolV(TRUE)
    THEN BoolV(TRUE)
    ELSE BoolV(FALSE)

\* The for loop of celExists, from the elements still to visit.
celExistsLoop(items, predicate, hasError) ==
    IF items = <<>> THEN (IF hasError THEN Undef ELSE BoolV(FALSE))
    ELSE LET result == predicate[Head(items)]
         IN  IF result = BoolV(TRUE) THEN BoolV(TRUE)
             ELSE celExistsLoop(Tail(items), predicate, hasError \/ result # BoolV(FALSE))

celExists(list, predicate) ==
    IF ~isList(list) THEN Undef ELSE celExistsLoop(list.l, predicate, FALSE)

celDyn(v) == v

-----------------------------------------------------------------------------
(* Runtime: field selection and presence on plain objects *)

\* record[field] on a plain object: the own field or undefined.
celSelect(obj, field) ==
    IF obj = Null \/ obj = Undef THEN Undef
    ELSE IF obj.t = "object"
    THEN (IF field \in DOMAIN obj.o THEN obj.o[field] ELSE Undef)
    ELSE Undef

\* CelIP: the raw bytes, 4 for IPv4 and 16 for IPv6.  CelCIDR: an address
\* and a prefix length.
IpV(bytes) == [t |-> "ip", bytes |-> bytes]
CidrV(ip, prefix) == [t |-> "cidr", ip |-> ip, prefix |-> prefix]
isCelIP(v) == v.t = "ip"
isCelCIDR(v) == v.t = "cidr"
isStr(v) == v.t = "string"

\* 2001:db8::1 and the like: the sixteen bytes from the first four and the last.
V6Bytes(b1, b2, b3, b4, last) == <<b1, b2, b3, b4, 0, 0, 0, 0, 0, 0, 0, 0, 0, 0, 0, last>>

\* parseIP, on the address strings that occur.
parseIP(s) ==
    CASE s = "192.168.0.1" -> IpV(<<192, 168, 0, 1>>)
      [] s = "192.168.1.1" -> IpV(<<192, 168, 1, 1>>)
      [] s = "2001:db8::1" -> IpV(V6Bytes(32, 1, 13, 184, 1))
      [] OTHER -> Undef

\* An ipInCIDR that counts the bits of a byte from the low end.
ipInCIDRLowBitFirst(ip, cidr) ==
    \A bit \in 0..(Len(ip.bytes) * 8 - 1) :
        bit < cidr.prefix =>
            (ip.bytes[(bit \div 8) + 1] \div 2^(bit % 8)) % 2
                = (cidr.ip.bytes[(bit \div 8) + 1] \div 2^(bit % 8)) % 2

\* The for loop of ipInCIDR returns false at the first bit below the prefix
\* on which the two addresses differ, and true when it finds none.
ipInCIDR(ip, cidr) ==
    LET totalBits == Len(ip.bytes) * 8
    IN  \A bit \in 0..(totalBits - 1) :
            bit < cidr.prefix =>
                LET byteIdx == bit \div 8
                    bitIdx == 7 - (bit % 8)
                    ipBit == (ip.bytes[byteIdx + 1] \div 2^bitIdx) % 2
                    cidrBit == (cidr.ip.bytes[byteIdx + 1] \div 2^bitIdx) % 2
                IN  ipBit = cidrBit

\* cidr.containsIP(ip_or_string)
celCIDRContainsIP(target, ipArg) ==
    IF target = Undef \/ ~isCelCIDR(target) THEN Undef
    ELSE LET ip == IF ipArg = Undef THEN Undef
                   ELSE IF isCelIP(ipArg) THEN ipArg
                   ELSE IF isStr(ipArg) THEN parseIP(ipArg.s)
                   ELSE Undef
         IN  IF ip = Undef THEN Undef
             ELSE IF Len(target.ip.bytes) # Len(ip.bytes) THEN BoolV(FALSE)
             ELSE BoolV(ipInCIDR(ip, target))

\* A struct (proto message): a plain object with the __type marker; o holds
\* the fields the literal set, whose names are the STRUCT_FIELDS set.
StructV(typeName, o) == [t |-> "struct", name |-> typeName, o |-> o]
isStruct(v) == v.t = "struct"

\* field.startsWith(prefix), over the field names of TestAllTypes that occur.
startsWith(field, prefix) ==
    CASE prefix = "repeated_" -> field \in {"repeated_int64"}
      [] prefix = "map_" -> field \in {"map_string_string"}
      [] prefix = "single_" -> field \in {"single_int64", "single_bool", "single_string",
                                          "single_nested_enum"}
      [] prefix = "oneof_" -> field \in {"oneof_bool"}
      [] OTHER -> FALSE

\* typeName.includes("proto3"), over the type names that occur.
includesProto3(typeName) == typeName = "cel.expr.conformance.proto3.TestAllTypes"

NULL_ERROR_FIELD_PATTERNS ==
    {"single_bool", "single_int64", "single_string", "single_nested_enum"}
isRepeatedFieldName(field) == startsWith(field, "repeated_") \/ field = "list_value"
isMapFieldName(field) == startsWith(field, "map_")
PROTO3_ONEOF_FIELDS ==
    {"single_nested_message", "single_nested_enum", "oneof_type", "oneof_msg", "oneof_bool"}

\* An isZeroValue for which only null is a zero value.
isZeroValueNullOnly(v) == v = Null

isZeroValue(v) ==
    \/ v = Null
    \/ v = BoolV(FALSE)
    \/ v = IntV(0)
    \/ v = UintV(0)
    \/ v = DoubleV(0)
    \/ v = StrV("")
    \/ (isList(v) /\ Len(v.l) = 0)
    \/ (isMap(v) /\ Len(v.m) = 0)
    \/ (isStruct(v) /\ DOMAIN v.o = {})

\* celMakeStruct for a message type that is not a well-known wrapper: null
\* on a scalar, repeated or map field is an error; a later entry for a
\* field replaces an earlier one.
celMakeStruct(name, entries) ==
    IF \E i \in 1..Len(entries) :
          /\ entries[i][2] = Null
          /\ \/ entries[i][1] \in NULL_ERROR_FIELD_PATTERNS
             \/ isRepeatedFieldName(entries[i][1])
             \/ isMapFieldName(entries[i][1])
             \/ entries[i][1] = "single_struct"
    THEN Undef
    ELSE StructV(name,
            [field \in {entries[i][1] : i \in 1..Len(entries)} |->
                LET last == CHOOSE i \in 1..Len(entries) :
                               /\ entries[i][1] = field
                               /\ \A j \in (i + 1)..Len(entries) : entries[j][1] # field
                IN  entries[last][2]])

\* celHas on a struct with field tracking.
celHasStruct(record, field) ==
    IF field \notin DOMAIN record.o
    THEN IF /\ ~isRepeatedFieldName(field)
            /\ ~isMapFieldName(field)
            /\ field \notin NULL_ERROR_FIELD_PATTERNS
            /\ ~startsWith(field, "single_")
            /\ ~startsWith(field, "standalone_")
            /\ ~startsWith(field, "oneof_")
            /\ ~startsWith(field, "optional_")
            /\ ~startsWith(field, "required_")
            /\ field # "in"
            /\ field # "bb"
         THEN Undef
         ELSE BoolV(FALSE)
    ELSE IF isRepeatedFieldName(field)
    THEN BoolV(isList(record.o[field]) /\ Len(record.o[field].l) > 0)
    ELSE IF isMapFieldName(field)
    THEN BoolV(isMap(record.o[field]) /\ Len(record.o[field].m) > 0)
    ELSE IF includesProto3(record.name)
    THEN IF field \in PROTO3_ONEOF_FIELDS THEN BoolV(TRUE)
         ELSE LET v == record.o[field]
              IN  IF v.t \in {"object", "struct", "list", "map", "type", "optional"}
                  THEN BoolV(TRUE)
                  ELSE BoolV(~isZeroValue(v))
    ELSE BoolV(TRUE)

\* A celHas that reports the error sentinel for a missing operand.
celHasStrictOperand(obj, field) ==
    IF obj = Null \/ obj = Undef THEN Undef
    ELSE IF obj.t = "object"
    THEN BoolV(field \in DOMAIN obj.o /\ obj.o[field] # Undef)
    ELSE BoolV(FALSE)

RECURSIVE celHas(_, _)

\* has(): false on null and undefined; an optional is unwrapped; a Map has
\* the key; a struct answers by its tracked fields; on a plain object, field
\* in record and record[field] !== undefined; a CelType object has the one
\* field name.
celHas(obj, field) ==
    IF obj = Null \/ obj = Undef THEN BoolV(FALSE)
    ELSE IF isCelOptional(obj)
    THEN (IF ~obj.has THEN BoolV(FALSE) ELSE celHas(obj.v, field))
    ELSE IF isMap(obj) THEN BoolV(JsMapHas(obj.m, StrV(field)))
    ELSE IF isStruct(obj) THEN celHasStruct(obj, field)
    ELSE IF obj.t = "object"
    THEN BoolV(field \in DOMAIN obj.o /\ obj.o[field] # Undef)
    ELSE IF obj.t = "type" THEN BoolV(field = "name")
    ELSE BoolV(FALSE)

-----------------------------------------------------------------------------
(* ESTree nodes, as the builders of estree-builders.ts make them *)

identifier(name) == [type |-> "Identifier", name |-> name]
literal(value) == [type |-> "Literal", value |-> value]
\* value is the tagged bigint of an IntLiteral node.
bigintLiteral(value) == [type |-> "Literal", value |-> value]
binaryExpr(operator, left, right) ==
    [type |-> "BinaryExpression", operator |-> operator, left |-> left, right |-> right]
logicalExpr(operator, left, right) ==
    [type |-> "LogicalExpression", operator |-> operator, left |-> left, right |-> right]
conditional(test, consequent, alternate) ==
    [type |-> "ConditionalExpression", test |-> test,
     consequent |-> consequent, alternate |-> alternate]
assignExpr(left, right) ==
    [type |-> "AssignmentExpression", left |-> left, right |-> right]
sequenceExpr(expressions) ==
    [type |-> "SequenceExpression", expressions |-> expressions]
\* object[property], computed access.
memberExpr(object, property) ==
    [type |-> "MemberExpression", object |-> object, property |-> property]
\* _rt.method(...args)
arrayExpr(elements) == [type |-> "ArrayExpression", elements |-> elements]
arrowFn(params, body) ==
    [type |-> "ArrowFunctionExpression", params |-> params, body |-> body]

rtCall(method, args) ==
    [type |-> "CallExpression", method |-> method, arguments |-> args]
\* new _rt.CelType(name)
newCelType(name) == [type |-> "NewExpression", name |-> name]

UNDEF == identifier("undefined")

-----------------------------------------------------------------------------
(* The runtime method table: the entries the emitted code of the model     *)
(* calls.                                                                  *)

createRuntime(method, args) ==
    CASE method = "add" -> celAdd(args[1], args[2])
      [] method = "sub" -> celSub(args[1], args[2])
      [] method = "mul" -> celMul(args[1], args[2])
      [] method = "div" -> celDiv(args[1], args[2])
      [] method = "neg" -> celNeg(args[1])
      [] method = "eq" -> celEq(args[1], args[2])
      [] method = "ne" -> celNe(args[1], args[2])
      [] method = "in" -> celIn(args[1], args[2])
      [] method = "dyn" -> celDyn(args[1])
      [] method = "makeList" -> celMakeList(args[1].l)
      [] method = "mapInsert" -> celMapInsert(args[1], args[2], args[3])
      [] method = "optionalOf" -> celOptionalOf(args[1])
      [] method = "select" -> celSelect(args[1], args[2].s)
      [] method = "has" -> celHas(args[1], args[2].s)
      [] OTHER -> Undef

-----------------------------------------------------------------------------
(* JavaScript evaluation of an emitted expression.  env.vars holds the     *)
(* parameters and the temporaries of the arrow function, env.temps the     *)
(* names declared by let.  The result carries the value, the environment   *)
(* after the assignments and the trace: every read of a parameter, every   *)
(* assignment to a temporary and every runtime call, in execution order.   *)

\* ToBoolean.
Truthy(v) ==
    CASE v.t = "bool" -> v.b
      [] v.t \in {"undefined", "null"} -> FALSE
      [] v.t = "int" -> v.n # 0
      [] v.t = "double" -> v.d # 0
      [] v.t = "string" -> v.s # ""
      [] OTHER -> TRUE

\* a === b for operands of which one is a primitive.
StrictEquals(a, b) == a = b

RECURSIVE JsEval(_, _)
RECURSIVE JsEvalList(_, _)
RECURSIVE celComprehensionLoop(_, _, _, _, _)

\* fn(...args) for an arrow function of the emitted code: its body runs with
\* the parameters bound; what it assigns to the temporaries of the enclosing
\* function stays assigned.
CallArrow(fn, args, env) ==
    LET params == {fn.params[i] : i \in 1..Len(fn.params)}
        argOf == [name \in params |->
                    args[CHOOSE i \in 1..Len(fn.params) : fn.params[i] = name]]
        r == JsEval(fn.body, [vars |-> argOf @@ env.vars, temps |-> env.temps \ params])
    IN  [v |-> r.v,
         env |-> [vars |-> [name \in DOMAIN env.vars |->
                              IF name \in params THEN env.vars[name]
                              ELSE r.env.vars[name]],
                  temps |-> env.temps],
         tr |-> r.tr]

\* The for loop of celComprehension over the items (the elements of a list,
\* the keys of a map).  done is "break", "error" or "end".
celComprehensionLoop(items, accu, condFn, stepFn, env) ==
    IF items = <<>> THEN [accu |-> accu, done |-> "end", env |-> env, tr |-> <<>>]
    ELSE LET cond == CallArrow(condFn, <<Head(items), accu>>, env)
         IN  IF cond.v = BoolV(FALSE)
             THEN [accu |-> accu, done |-> "break", env |-> cond.env, tr |-> cond.tr]
             ELSE IF cond.v # BoolV(TRUE)
             THEN [accu |-> accu, done |-> "error", env |-> cond.env, tr |-> cond.tr]
             ELSE LET step == CallArrow(stepFn, <<Head(items), accu>>, cond.env)
                      rest == celComprehensionLoop(Tail(items), step.v, condFn, stepFn,
                                                   step.env)
                  IN  [rest EXCEPT !.tr = cond.tr \o step.tr \o rest.tr]

RECURSIVE celFilterListLoop(_, _, _, _)

\* The for loop of celFilterList over the items (the elements of a list, the
\* keys of a map), result the array pushed to so far.
celFilterListLoop(items, predicate, result, env) ==
    IF items = <<>> THEN [v |-> ListV(result), env |-> env, tr |-> <<>>]
    ELSE LET test == CallArrow(predicate, <<Head(items)>>, env)
         IN  IF test.v # BoolV(TRUE) /\ test.v # BoolV(FALSE)
             THEN [v |-> Undef, env |-> test.env, tr |-> test.tr]
             ELSE LET rest == celFilterListLoop(
                                  Tail(items), predicate,
                                  IF test.v = BoolV(TRUE) THEN Append(result, Head(items))
                                  ELSE result,
                                  test.env)
                  IN  [rest EXCEPT !.tr = test.tr \o rest.tr]

\* A filter loop that leaves out an element whose test is not true, error
\* or not.
celFilterListSkipsErrors(range, predicate, env) ==
    IF isList(range) \/ isMap(range)
    THEN LET items == IF isList(range) THEN range.l
                      ELSE [i \in 1..Len(range.m) |-> range.m[i][1]]
         IN  [v |-> ListV(SelectSeq(items,
                            LAMBDA e : CallArrow(predicate, <<e>>, env).v = BoolV(TRUE))),
              env |-> env, tr |-> <<>>]
    ELSE [v |-> Undef, env |-> env, tr |-> <<>>]

\* celFilterList(range, predicate)
celFilterList(range, predicate, env) ==
    IF isList(range) THEN celFilterListLoop(range.l, predicate, <<>>, env)
    ELSE IF isMap(range)
    THEN celFilterListLoop([i \in 1..Len(range.m) |-> range.m[i][1]], predicate, <<>>, env)
    ELSE [v |-> Undef, env |-> env, tr |-> <<>>]

\* A celComprehension that treats an error of the loop condition as a break.
celComprehensionErrorBreaks(range, init, condFn, stepFn, resultFn, env) ==
    IF isList(range) \/ isMap(range)
    THEN LET items == IF isList(range) THEN range.l
                      ELSE [i \in 1..Len(range.m) |-> range.m[i][1]]
             loop == celComprehensionLoop(items, init, condFn, stepFn, env)
             result == CallArrow(resultFn, <<loop.accu>>, loop.env)
         IN  [v |-> result.v, env |-> result.env, tr |-> loop.tr \o result.tr]
    ELSE [v |-> Undef, env |-> env, tr |-> <<>>]

\* celComprehension(range, init, iterVar, accuVar, condFn, stepFn, resultFn)
celComprehension(range, init, condFn, stepFn, resultFn, env) ==
    IF isList(range) \/ isMap(range)
    THEN LET items == IF isList(range) THEN range.l
                      ELSE [i \in 1..Len(range.m) |-> range.m[i][1]]
             loop == celComprehensionLoop(items, init, condFn, stepFn, env)
         IN  IF loop.done = "error"
             THEN [v |-> Undef, env |-> loop.env, tr |-> loop.tr]
             ELSE LET result == CallArrow(resultFn, <<loop.accu>>, loop.env)
                  IN  [v |-> result.v, env |-> result.env, tr |-> loop.tr \o result.tr]
    ELSE [v |-> Undef, env |-> env, tr |-> <<>>]

JsEvalList(es, env) ==
    IF es = <<>> THEN [vs |-> <<>>, env |-> env, tr |-> <<>>]
    ELSE LET h == JsEval(Head(es), env)
             r == JsEvalList(Tail(es), h.env)
         IN  [vs |-> <<h.v>> \o r.vs, env |-> r.env, tr |-> h.tr \o r.tr]

JsEval(e, env) ==
    CASE e.type = "Literal" -> [v |-> e.value, env |-> env, tr |-> <<>>]
      [] e.type = "Identifier" ->
            IF e.name = "undefined" THEN [v |-> Undef, env |-> env, tr |-> <<>>]
            ELSE [v |-> env.vars[e.name], env |-> env,
                  tr |-> IF e.name \in env.temps \cup {"_rt", "_qb"} THEN <<>>
                         ELSE << <<"read", e.name>> >>]
      [] e.type = "NewExpression" ->
            [v |-> CelType(e.name), env |-> env, tr |-> <<>>]
      [] e.type = "AssignmentExpression" ->
            LET r == JsEval(e.right, env)
            IN  [v |-> r.v,
                 env |-> [r.env EXCEPT !.vars = [r.env.vars EXCEPT ![e.left.name] = r.v]],
                 tr |-> r.tr \o << <<"assign", e.left.name>> >>]
      [] e.type = "SequenceExpression" ->
            LET r == JsEvalList(e.expressions, env)
            IN  [v |-> r.vs[Len(r.vs)], env |-> r.env, tr |-> r.tr]
      [] e.type = "ConditionalExpression" ->
            LET c == JsEval(e.test, env)
                b == IF Truthy(c.v) THEN JsEval(e.consequent, c.env)
                     ELSE JsEval(e.alternate, c.env)
            IN  [v |-> b.v, env |-> b.env, tr |-> c.tr \o b.tr]
      [] e.type = "LogicalExpression" ->
            \* operator "&&"
            LET l == JsEval(e.left, env)
            IN  IF ~Truthy(l.v) THEN l
                ELSE LET r == JsEval(e.right, l.env)
                     IN  [v |-> r.v, env |-> r.env, tr |-> l.tr \o r.tr]
      [] e.type = "BinaryExpression" ->
            LET l == JsEval(e.left, env)
                r == JsEval(e.right, l.env)
                v == CASE e.operator = "===" -> BoolV(StrictEquals(l.v, r.v))
                       [] e.operator = "!==" -> BoolV(~StrictEquals(l.v, r.v))
                       [] e.operator = "in" -> BoolV(l.v.s \in DOMAIN r.v.o)
            IN  [v |-> v, env |-> r.env, tr |-> l.tr \o r.tr]
      [] e.type = "MemberExpression" ->
            LET o == JsEval(e.object, env)
                k == JsEval(e.property, o.env)
            IN  [v |-> IF k.v.s \in DOMAIN o.v.o THEN o.v.o[k.v.s] ELSE Undef,
                 env |-> k.env, tr |-> o.tr \o k.tr]
      [] e.type = "ArrayExpression" ->
            LET r == JsEvalList(e.elements, env)
            IN  [v |-> ListV(r.vs), env |-> r.env, tr |-> r.tr]
      [] e.type = "ArrowFunctionExpression" ->
            [v |-> [t |-> "function", params |-> e.params, body |-> e.body],
             env |-> env, tr |-> <<>>]
      [] e.type = "CallExpression" ->
            LET a == JsEvalList(e.arguments, env)
            IN  IF e.method = "comprehension"
                THEN LET run == celComprehension(a.vs[1], a.vs[2], a.vs[5], a.vs[6],
                                                 a.vs[7], a.env)
                     IN  [v |-> run.v, env |-> run.env,
                          tr |-> a.tr \o << <<"call", e.method>> >> \o run.tr]
                ELSE IF e.method = "filterList"
                THEN LET run == celFilterList(a.vs[1], a.vs[2], a.env)
                     IN  [v |-> run.v, env |-> run.env,
                          tr |-> a.tr \o << <<"call", e.method>> >> \o run.tr]
                ELSE [v |-> createRuntime(e.method, a.vs), env |-> a.env,
                      tr |-> a.tr \o << <<"call", e.method>> >>]

-----------------------------------------------------------------------------
(* CEL AST nodes (parser/ast.ts).  A literal node carries its value with  *)
(* the tag of the JavaScript type that holds it (bigint, number, boolean).  *)

IntLiteral(value) == [kind |-> "IntLiteral", value |-> IntV(value)]
DoubleLiteral(value) == [kind |-> "DoubleLiteral", value |-> DoubleV(value)]
BoolLiteral(value) == [kind |-> "BoolLiteral", value |-> BoolV(value)]
NullLiteral == [kind |-> "NullLiteral"]
Ident(name) == [kind |-> "Ident", name |-> name]
Select(operand, field, testOnly) ==
    [kind |-> "Select", operand |-> operand, field |-> field, testOnly |-> testOnly]
Comprehension(iterVar, iterRange, accuVar, accuInit, loopCondition, loopStep, result) ==
    [kind |-> "Comprehension", iterVar |-> iterVar, iterRange |-> iterRange,
     accuVar |-> accuVar, accuInit |-> accuInit, loopCondition |-> loopCondition,
     loopStep |-> loopStep, result |-> result]

\* A global call or operator call (no receiver).
Call(fn, args) == [kind |-> "Call", fn |-> fn, args |-> args]

-----------------------------------------------------------------------------
(* TempAllocator *)

Letters == <<"a", "b", "c", "d", "e", "f", "g", "h", "i", "j", "k", "l", "m",
             "n", "o", "p", "q", "r", "s", "t", "u", "v", "w", "x", "y", "z">>
Digits36 == <<"0", "1", "2", "3", "4", "5", "6", "7", "8", "9">> \o Letters

\* String.fromCharCode(97 + k)
fromCharCode97(k) == Letters[k + 1]

\* Number.prototype.toString(36)
RECURSIVE toString36(_)
toString36(h) ==
    IF h < 36 THEN Digits36[h + 1]
    ELSE toString36(h \div 36) \o Digits36[(h % 36) + 1]

\* The name next() makes from the counter value n.
TempName(n) ==
    IF n < 26 THEN "_" \o fromCharCode97(n)
    ELSE LET hi == (n \div 26) - 1
             lo == n % 26
         IN  (IF hi < 26 THEN "_" \o fromCharCode97(hi) ELSE "_" \o toString36(hi))
             \o fromCharCode97(lo)

NewTempAllocator == [counter |-> 0, used |-> <<>>]

\* next(): the allocator after the call; the name returned is the last of used.
TempAllocatorNext(temps) ==
    [counter |-> temps.counter + 1, used |-> Append(temps.used, TempName(temps.counter))]

-----------------------------------------------------------------------------
(* Transformer: qualified identifier chains *)

CEL_TYPE_CONSTANTS ==
    {"bool", "int", "uint", "double", "string", "bytes", "list", "map", "type", "null_type"}

\* segments.slice(0, n).join(".")
RECURSIVE JoinPrefix(_, _)
JoinPrefix(segments, n) ==
    IF n = 1 THEN segments[1] ELSE JoinPrefix(segments, n - 1) \o "." \o segments[n]

\* The chain of Select nodes down to an Ident root, <<>> for undefined.
RECURSIVE collectSelectChain(_)
collectSelectChain(node) ==
    IF node.kind = "Ident" THEN <<node.name>>
    ELSE IF node.kind = "Select" /\ ~node.testOnly
    THEN LET parent == collectSelectChain(node.operand)
         IN  IF parent # <<>> THEN Append(parent, node.field) ELSE <<>>
    ELSE <<>>

\* base wrapped in _rt.select(., f) for the fields from..to of segments.
RECURSIVE SelectFields(_, _, _, _)
SelectFields(base, segments, from, to) ==
    IF from > to THEN base
    ELSE SelectFields(rtCall("select", <<base, literal(StrV(segments[from]))>>),
                      segments, from + 1, to)

\* The conditional chain of buildQualifiedResolution: prefixes of length
\* n .. Len(segments) wrapped around result, the longest outermost.
RECURSIVE ResolutionLevels(_, _, _)
ResolutionLevels(segments, n, result) ==
    IF n > Len(segments) THEN result
    ELSE LET key == JoinPrefix(segments, n)
             lookupExpr == memberExpr(identifier("_qb"), literal(StrV(key)))
             selected == SelectFields(lookupExpr, segments, n + 1, Len(segments))
         IN  ResolutionLevels(segments, n + 1,
                 conditional(binaryExpr("in", literal(StrV(key)), identifier("_qb")),
                             selected, result))

\* A resolution whose chain puts the shortest prefix outermost.
RECURSIVE ResolutionLevelsShortestFirst(_, _, _)
ResolutionLevelsShortestFirst(segments, n, result) ==
    IF n < 2 THEN result
    ELSE LET key == JoinPrefix(segments, n)
             lookupExpr == memberExpr(identifier("_qb"), literal(StrV(key)))
             selected == SelectFields(lookupExpr, segments, n + 1, Len(segments))
         IN  ResolutionLevelsShortestFirst(segments, n - 1,
                 conditional(binaryExpr("in", literal(StrV(key)), identifier("_qb")),
                             selected, result))

buildQualifiedResolutionShortestWins(segments) ==
    ResolutionLevelsShortestFirst(segments, Len(segments),
        SelectFields(identifier(segments[1]), segments, 2, Len(segments)))

buildQualifiedResolution(segments) ==
    ResolutionLevels(segments, 2,
        SelectFields(identifier(segments[1]), segments, 2, Len(segments)))

\* The conditional chain of buildQualifiedHas over fullPath = segments + field.
RECURSIVE HasLevels(_, _, _)
HasLevels(fullPath, n, result) ==
    IF n > Len(fullPath) THEN result
    ELSE LET key == JoinPrefix(fullPath, n)
             test == binaryExpr("in", literal(StrV(key)), identifier("_qb"))
             lookupExpr == memberExpr(identifier("_qb"), literal(StrV(key)))
             base == SelectFields(lookupExpr, fullPath, n + 1, Len(fullPath) - 1)
             hasExpr == rtCall("has", <<base, literal(StrV(fullPath[Len(fullPath)]))>>)
         IN  HasLevels(fullPath, n + 1,
                 IF n = Len(fullPath)
                 THEN conditional(test, literal(BoolV(TRUE)), result)
                 ELSE conditional(test, hasExpr, result))

buildQualifiedHas(segments, field) ==
    LET fallbackBase == SelectFields(identifier(segments[1]), segments, 2, Len(segments))
        fallback == rtCall("has", <<fallbackBase, literal(StrV(field))>>)
    IN  HasLevels(Append(segments, field), 2, fallback)

-----------------------------------------------------------------------------
(* Transformer: logical operators, negation, ternary *)

\* The cascade (tmpA === d ? d : tmpB === d ? d : tmpA === n && tmpB === n ? n
\* : undefined), d the decisive literal and n the neutral one.
LogicalCascade(tmpA, tmpB, decisive, neutral) ==
    conditional(
        binaryExpr("===", identifier(tmpA), literal(BoolV(decisive))),
        literal(BoolV(decisive)),
        conditional(
            binaryExpr("===", identifier(tmpB), literal(BoolV(decisive))),
            literal(BoolV(decisive)),
            conditional(
                logicalExpr("&&",
                    binaryExpr("===", identifier(tmpA), literal(BoolV(neutral))),
                    binaryExpr("===", identifier(tmpB), literal(BoolV(neutral)))),
                literal(BoolV(neutral)),
                UNDEF)))

\* An AND that skips the right operand when the left one is false, the way
\* the runtime helper celAnd(a, () => b) does.
transformLogicalAndShortCircuit(tmpA, tmpB, leftExpr, rightExpr) ==
    sequenceExpr(<<
        assignExpr(identifier(tmpA), leftExpr),
        conditional(
            binaryExpr("===", identifier(tmpA), literal(BoolV(FALSE))),
            literal(BoolV(FALSE)),
            sequenceExpr(<<
                assignExpr(identifier(tmpB), rightExpr),
                LogicalCascade(tmpA, tmpB, FALSE, TRUE)>>))>>)

\* (tmpA = left, tmpB = right, cascade)
transformLogicalAnd(tmpA, tmpB, leftExpr, rightExpr) ==
    sequenceExpr(<<
        assignExpr(identifier(tmpA), leftExpr),
        assignExpr(identifier(tmpB), rightExpr),
        LogicalCascade(tmpA, tmpB, FALSE, TRUE)>>)

\* An OR whose error test comes before the test of the right operand.
transformLogicalOrErrorFirst(tmpA, tmpB, leftExpr, rightExpr) ==
    sequenceExpr(<<
        assignExpr(identifier(tmpA), leftExpr),
        assignExpr(identifier(tmpB), rightExpr),
        conditional(
            binaryExpr("===", identifier(tmpA), literal(BoolV(TRUE))),
            literal(BoolV(TRUE)),
            conditional(
                binaryExpr("===", identifier(tmpA), UNDEF),
                UNDEF,
                conditional(
                    binaryExpr("===", identifier(tmpB), literal(BoolV(TRUE))),
                    literal(BoolV(TRUE)),
                    conditional(
                        binaryExpr("===", identifier(tmpB), literal(BoolV(FALSE))),
                        literal(BoolV(FALSE)),
                        UNDEF))))>>)

transformLogicalOr(tmpA, tmpB, leftExpr, rightExpr) ==
    sequenceExpr(<<
        assignExpr(identifier(tmpA), leftExpr),
        assignExpr(identifier(tmpB), rightExpr),
        LogicalCascade(tmpA, tmpB, TRUE, FALSE)>>)

\* arg === false ? true : arg === true ? false : undefined
transformNot(arg) ==
    conditional(
        binaryExpr("===", arg, literal(BoolV(FALSE))),
        literal(BoolV(TRUE)),
        conditional(binaryExpr("===", arg, literal(BoolV(TRUE))), literal(BoolV(FALSE)), UNDEF))

\* A ternary that takes the consequent for every truthy condition, the way
\* the runtime helper celCond does.
transformTernaryTruthy(cond, consequent, alternate) ==
    conditional(
        binaryExpr("===", cond, UNDEF),
        UNDEF,
        conditional(cond, consequent, alternate))

\* cond === true ? consequent : cond === false ? alternate : undefined
transformTernary(cond, consequent, alternate) ==
    conditional(
        binaryExpr("===", cond, literal(BoolV(TRUE))),
        consequent,
        conditional(binaryExpr("===", cond, literal(BoolV(FALSE))), alternate, UNDEF))

\* OPERATOR_TO_RT, "" for a name that is no operator.
OPERATOR_TO_RT(fn) ==
    CASE fn = "_+_" -> "add"
      [] fn = "_-_" -> "sub"
      [] fn = "_*_" -> "mul"
      [] fn = "_/_" -> "div"
      [] fn = "-_" -> "neg"
      [] fn = "_==_" -> "eq"
      [] fn = "_!=_" -> "ne"
      [] OTHER -> ""

\* GLOBAL_FUNC_TO_RT, the name itself for a function it does not list.
GLOBAL_FUNC_TO_RT(fn) ==
    CASE fn = "dyn" -> "dyn"
      [] OTHER -> fn

-----------------------------------------------------------------------------
(* Transformer: the recursive walk.  st.temps is the TempAllocator and     *)
(* st.bindings the binding set in insertion order.                         *)

\* Set.add on the insertion-ordered binding set.
SetAdd(bindings, name) ==
    IF \E i \in 1..Len(bindings) : bindings[i] = name THEN bindings
    ELSE Append(bindings, name)

RECURSIVE transformExpr(_, _)
RECURSIVE transformArgs(_, _)
RECURSIVE transformCall(_, _, _)

\* transformComprehension (one iteration variable): the loop condition, the
\* step and the result are transformed against a copy of the binding set
\* with iterVar and accuVar added; the copy is dropped afterwards.
transformComprehension(node, st) ==
    LET iterRange == transformExpr(node.iterRange, st)
        accuInit == transformExpr(node.accuInit, iterRange.st)
        innerBindings == SetAdd(SetAdd(accuInit.st.bindings, node.iterVar), node.accuVar)
        loopCondition == transformExpr(node.loopCondition,
                                       [accuInit.st EXCEPT !.bindings = innerBindings])
        loopStep == transformExpr(node.loopStep, loopCondition.st)
        result == transformExpr(node.result, loopStep.st)
        condParams == <<node.iterVar, node.accuVar>>
    IN  [expr |-> rtCall("comprehension",
                     <<iterRange.expr, accuInit.expr,
                       literal(StrV(node.iterVar)), literal(StrV(node.accuVar)),
                       arrowFn(condParams, loopCondition.expr),
                       arrowFn(condParams, loopStep.expr),
                       arrowFn(<<node.accuVar>>, result.expr)>>),
         st |-> [temps |-> result.st.temps, bindings |-> accuInit.st.bindings]]

\* args.map((a) => transformExpr(a, temps, bindings))
transformArgs(args, st) ==
    IF args = <<>> THEN [exprs |-> <<>>, st |-> st]
    ELSE LET h == transformExpr(Head(args), st)
             r == transformArgs(Tail(args), h.st)
         IN  [exprs |-> <<h.expr>> \o r.exprs, st |-> r.st]

transformCall(fn, args, st) ==
    IF fn \in {"_&&_", "_||_"} /\ Len(args) = 2
    THEN LET t1 == TempAllocatorNext(st.temps)
             t2 == TempAllocatorNext(t1)
             tmpA == t1.used[Len(t1.used)]
             tmpB == t2.used[Len(t2.used)]
             l == transformExpr(args[1], [st EXCEPT !.temps = t2])
             r == transformExpr(args[2], l.st)
         IN  [expr |-> IF fn = "_&&_"
                       THEN transformLogicalAnd(tmpA, tmpB, l.expr, r.expr)
                       ELSE transformLogicalOr(tmpA, tmpB, l.expr, r.expr),
              st |-> r.st]
    ELSE LET a == transformArgs(args, st)
         IN  IF fn = "!_" /\ Len(args) = 1
             THEN [expr |-> transformNot(a.exprs[1]), st |-> a.st]
             ELSE IF fn = "@not_strictly_false" /\ Len(args) = 1
             THEN [expr |-> binaryExpr("!==", a.exprs[1], literal(BoolV(FALSE))),
                   st |-> a.st]
             ELSE IF fn = "_?_:_" /\ Len(args) = 3
             THEN [expr |-> transformTernary(a.exprs[1], a.exprs[2], a.exprs[3]),
                   st |-> a.st]
             ELSE IF OPERATOR_TO_RT(fn) # ""
             THEN [expr |-> rtCall(OPERATOR_TO_RT(fn), a.exprs), st |-> a.st]
             ELSE [expr |-> rtCall(GLOBAL_FUNC_TO_RT(fn), a.exprs), st |-> a.st]

transformExpr(node, st) ==
    CASE node.kind = "IntLiteral" -> [expr |-> bigintLiteral(node.value), st |-> st]
      [] node.kind = "DoubleLiteral" -> [expr |-> literal(node.value), st |-> st]
      [] node.kind = "BoolLiteral" -> [expr |-> literal(node.value), st |-> st]
      [] node.kind = "NullLiteral" -> [expr |-> literal(Null), st |-> st]
      [] node.kind = "Ident" ->
            IF node.name \in CEL_TYPE_CONSTANTS
            THEN [expr |-> newCelType(node.name), st |-> st]
            ELSE [expr |-> identifier(node.name),
                  st |-> [st EXCEPT !.bindings = SetAdd(@, node.name)]]
      [] node.kind = "Select" ->
            LET chain == collectSelectChain(node)
            IN  IF chain # <<>> /\ Len(chain) > 1
                THEN [expr |-> IF node.testOnly
                               THEN buildQualifiedHas(SubSeq(chain, 1, Len(chain) - 1),
                                                      chain[Len(chain)])
                               ELSE buildQualifiedResolution(chain),
                      st |-> [st EXCEPT !.bindings = SetAdd(@, chain[1])]]
                ELSE LET operand == transformExpr(node.operand, st)
                     IN  [expr |-> rtCall(IF node.testOnly THEN "has" ELSE "select",
                                          <<operand.expr, literal(StrV(node.field))>>),
                          st |-> operand.st]
      [] node.kind = "Call" -> transformCall(node.fn, node.args, st)
      [] node.kind = "Comprehension" -> transformComprehension(node, st)

\* transform(): the emitted arrow function (_rt, _qb, ...bindings) => { let
\* temps; return expr } with the temporaries and the binding manifest.
transform(celAst) ==
    LET r == transformExpr(celAst, [temps |-> NewTempAllocator, bindings |-> <<>>])
    IN  [program |-> [params |-> <<"_rt", "_qb">> \o r.st.bindings,
                      lets |-> r.st.temps.used,
                      body |-> r.expr],
         temps |-> r.st.temps.used,
         bindings |-> r.st.bindings]

-----------------------------------------------------------------------------
(* Compile driver: the closure compile() returns *)

\* The qualified paths the transformer reports with its result
\* (result.qualifiedBindings): one entry per dotted chain it resolved.
RECURSIVE qualifiedBindings(_)
RECURSIVE qualifiedBindingsOfArgs(_)
qualifiedBindingsOfArgs(args) ==
    IF args = <<>> THEN <<>>
    ELSE qualifiedBindings(Head(args)) \o qualifiedBindingsOfArgs(Tail(args))
qualifiedBindings(node) ==
    CASE node.kind = "Select" ->
            LET chain == collectSelectChain(node)
            IN  IF chain # <<>> /\ Len(chain) > 1 THEN << chain >>
                ELSE qualifiedBindings(node.operand)
      [] node.kind = "Call" -> qualifiedBindingsOfArgs(node.args)
      [] OTHER -> <<>>

\* Default qualified bindings: of the well-known names the driver installs,
\* the model keeps two type constants and the two enum objects.
defaultQualifiedBindings ==
    [k \in {"net.IP", "net.CIDR", "NullValue", "GlobalEnum"} |->
        CASE k = "net.IP" -> CelType("net.IP")
          [] k = "net.CIDR" -> CelType("net.CIDR")
          [] k = "NullValue" -> ObjV(Rec1("NULL_VALUE", IntV(0)))
          [] k = "GlobalEnum" ->
                ObjV([e \in {"GOO", "GAR", "GAZ"} |->
                        IF e = "GOO" THEN IntV(0) ELSE IF e = "GAR" THEN IntV(1) ELSE IntV(2)])]

\* record[key], undefined for a key the record lacks.
Get(record, key) == IF key \in DOMAIN record THEN record[key] ELSE Undef

\* resolveBinding: `${container}.${name}` in bindings, then name in bindings,
\* then qb[name].  The container is kept as its segments, <<>> for none.
resolveBinding(container, name, bindings, qb) ==
    IF container # <<>> /\ bindings.given
       /\ (JoinPrefix(container, Len(container)) \o "." \o name) \in DOMAIN bindings.b
    THEN bindings.b[JoinPrefix(container, Len(container)) \o "." \o name]
    ELSE IF bindings.given /\ name \in DOMAIN bindings.b THEN bindings.b[name]
    ELSE Get(qb, name)

\* Fused two-hop select; on the plain objects of the model it reads
\* record0[field1] and then record1[field2].
celSelectPath2(obj, field1, field2) ==
    IF obj.t = "object"
    THEN LET value1 == Get(obj.o, field1)
         IN  IF value1.t # "object" THEN Undef ELSE Get(value1.o, field2)
    ELSE LET selected1 == celSelect(obj, field1)
         IN  IF selected1 = Undef THEN Undef ELSE celSelect(selected1, field2)

RECURSIVE SelectLoop(_, _)
SelectLoop(base, fields) ==
    IF fields = <<>> THEN base
    ELSE LET result == celSelect(base, Head(fields))
         IN  IF result = Undef THEN Undef ELSE SelectLoop(result, Tail(fields))

applySelectFields(base, fields) ==
    IF Len(fields) = 0 THEN base
    ELSE IF Len(fields) = 1 THEN celSelect(base, fields[1])
    ELSE IF Len(fields) = 2 THEN celSelectPath2(base, fields[1], fields[2])
    ELSE SelectLoop(base, fields)

\* The resolver makeQualifiedResolver(segments) returns, applied to
\* (bindings, qb): prefixes of length n, n-1, .., 2, then the root.
RECURSIVE QualifiedResolve(_, _, _, _, _)
QualifiedResolve(container, segments, n, bindings, qb) ==
    IF n < 2
    THEN applySelectFields(resolveBinding(container, segments[1], bindings, qb),
                           SubSeq(segments, 2, Len(segments)))
    ELSE IF JoinPrefix(segments, n) \in DOMAIN qb
    THEN applySelectFields(qb[JoinPrefix(segments, n)],
                           SubSeq(segments, n + 1, Len(segments)))
    ELSE QualifiedResolve(container, segments, n - 1, bindings, qb)

makeQualifiedResolver(container, segments, bindings, qb) ==
    QualifiedResolve(container, segments, Len(segments), bindings, qb)

\* populateQualifiedBindings: qb after the loop over the resolvers.
RECURSIVE populateQualifiedBindings(_, _, _, _)
populateQualifiedBindings(container, specs, qb, bindings) ==
    IF specs = <<>> THEN qb
    ELSE LET segments == Head(specs)
             key == JoinPrefix(segments, Len(segments))
             value == makeQualifiedResolver(container, segments, bindings, qb)
         IN  populateQualifiedBindings(container, Tail(specs),
                 IF key \in DOMAIN qb \/ value = Undef THEN qb
                 ELSE (key :> value) @@ qb,
                 bindings)

\* A resolveQB that caches what it derives from the empty record too.
resolveQBCachesEmpty(c, bindings, cachedArg, cached) ==
    IF ~bindings.given
    THEN [qb |-> defaultQualifiedBindings, cachedArg |-> cachedArg, cached |-> cached,
          bindings |-> bindings.b]
    ELSE IF cachedArg.given /\ bindings.obj = cachedArg.obj
    THEN [qb |-> cached, cachedArg |-> cachedArg, cached |-> cached,
          bindings |-> bindings.b]
    ELSE LET qb == populateQualifiedBindings(c.container, c.qualifiedBindings,
                        bindings.b @@ defaultQualifiedBindings, bindings)
         IN  [qb |-> qb, cachedArg |-> bindings, cached |-> qb, bindings |-> bindings.b]

\* A resolveQB that spreads the defaults and the qualified paths into the
\* object it was passed instead of into a new one.
resolveQBInPlace(c, bindings, cachedArg, cached) ==
    IF ~bindings.given \/ DOMAIN bindings.b = {}
    THEN [qb |-> defaultQualifiedBindings, cachedArg |-> cachedArg, cached |-> cached,
          bindings |-> bindings.b]
    ELSE IF cachedArg.given /\ bindings.obj = cachedArg.obj
    THEN [qb |-> cached, cachedArg |-> cachedArg, cached |-> cached,
          bindings |-> bindings.b]
    ELSE LET qb == populateQualifiedBindings(c.container, c.qualifiedBindings,
                        bindings.b @@ defaultQualifiedBindings, bindings)
         IN  [qb |-> qb, cachedArg |-> bindings, cached |-> qb, bindings |-> qb]

\* resolveQB: the record handed to the emitted function as _qb, with the
\* cache variables after the call.  bindings.obj is the identity of the object
\* passed (bindings === cachedBindingsArg), bindings.b its contents now.
\* qb is a new object ({...defaultQualifiedBindings, ...bindings}) and
\* populateQualifiedBindings writes into it: the field bindings, the contents
\* of the object passed when resolveQB returns, is what they were.
resolveQB(c, bindings, cachedArg, cached) ==
    IF ~bindings.given \/ DOMAIN bindings.b = {}
    THEN [qb |-> defaultQualifiedBindings, cachedArg |-> cachedArg, cached |-> cached,
          bindings |-> bindings.b]
    ELSE IF cachedArg.given /\ bindings.obj = cachedArg.obj
    THEN [qb |-> cached, cachedArg |-> cachedArg, cached |-> cached,
          bindings |-> bindings.b]
    ELSE LET qb == populateQualifiedBindings(c.container, c.qualifiedBindings,
                        bindings.b @@ defaultQualifiedBindings, bindings)
         IN  [qb |-> qb, cachedArg |-> bindings, cached |-> qb, bindings |-> bindings.b]

\* A checkResult that hands the result through.
checkResultPassThrough(result) == [kind |-> "return", value |-> result]

\* checkResult: throw CelError on the error sentinel.
checkResult(result) ==
    IF result = Undef THEN [kind |-> "throw", error |-> "CelError"]
    ELSE [kind |-> "return", value |-> result]

\* compiledFn(runtime, qb, ...args): the emitted arrow function applied.
compiledFn(program, qb, args) ==
    LET n == Len(program.params) - 2
        paramOf == [name \in {program.params[i + 2] : i \in 1..n} |->
                      args[CHOOSE i \in 1..n : program.params[i + 2] = name]]
        letOf == [name \in {program.lets[i] : i \in 1..Len(program.lets)} |-> Undef]
        env == [vars |-> letOf @@ paramOf @@ ("_qb" :> ObjV(qb)),
                temps |-> DOMAIN letOf]
    IN  JsEval(program.body, env)

\* compile(cel, {container}): everything the closure captures that the
\* model reads.
compile(celAst, container) ==
    LET result == transform(celAst)
    IN  [ast |-> celAst,
         container |-> container,
         program |-> result.program,
         bindingNames |-> result.bindings,
         qualifiedBindings |-> qualifiedBindings(celAst)]

-----------------------------------------------------------------------------
(* The expressions compiled and the binding records passed to evaluate *)

\* ((1 / 0) == 0): an operand that evaluates to the error sentinel.
ErrExpr == Call("_==_", <<Call("_/_", <<IntLiteral(1), IntLiteral(0)>>), IntLiteral(0)>>)

\* a.b.c, a.b and has(a.b.c), has(a.b)
PathABC == Select(Select(Ident("a"), "b", FALSE), "c", FALSE)
PathAB == Select(Ident("a"), "b", FALSE)
HasABC == Select(Select(Ident("a"), "b", FALSE), "c", TRUE)
HasAB == Select(Ident("a"), "b", TRUE)

LogicOperands == {BoolLiteral(TRUE), BoolLiteral(FALSE), ErrExpr, Ident("p"), Ident("q")}

LogicExprs ==
    {Call(fn, <<l, r>>) : fn \in {"_&&_", "_||_"}, l \in LogicOperands, r \in LogicOperands}
    \cup {Call("_&&_", <<Call("_||_", <<Ident("p"), Ident("q")>>), Ident("r")>>),
          Call("_||_", <<Ident("r"), Call("_&&_", <<Ident("p"), Ident("q")>>)>>),
          Call("!_", <<Ident("p")>>)}

TernaryExprs ==
    {Call("_?_:_", <<c, Ident("q"), Ident("r")>>) :
        c \in {BoolLiteral(TRUE), BoolLiteral(FALSE), ErrExpr, IntLiteral(1),
               NullLiteral, Ident("p")}}
    \cup {Call("_?_:_", <<Ident("p"), ErrExpr, IntLiteral(2)>>),
          Call("_?_:_", <<Ident("p"), IntLiteral(2), ErrExpr>>)}

PathExprs == {PathABC, PathAB, HasABC, HasAB, Ident("a"), Ident("z"),
              Select(Ident("net"), "IP", FALSE)}

EqualityExprs ==
    {Call("_==_", <<IntLiteral(1), DoubleLiteral(1)>>),
     Call("_==_", <<Call("dyn", <<IntLiteral(1)>>), DoubleLiteral(1)>>),
     Call("_!=_", <<IntLiteral(1), DoubleLiteral(1)>>),
     Call("_==_", <<IntLiteral(1), DoubleLiteral(2)>>),
     Call("_==_", <<Call("dyn", <<IntLiteral(2)>>), DoubleLiteral(1)>>),
     Call("_==_", <<IntLiteral(1), IntLiteral(1)>>),
     Call("_==_", <<IntLiteral(1), BoolLiteral(TRUE)>>)}

ArithExprs ==
    {Call("_+_", <<IntLiteral(INT64_MAX), IntLiteral(1)>>),
     Call("_*_", <<IntLiteral(2), IntLiteral(3)>>),
     Call("-_", <<Call("_-_", <<IntLiteral(-1), IntLiteral(INT64_MAX)>>)>>)}

Exprs == LogicExprs \cup TernaryExprs \cup PathExprs \cup EqualityExprs \cup ArithExprs

\* The containers compile is given: none, or x.y.
Containers == {<<>>, <<"x", "y">>}

\* The records with key k bound to one of vals, or without k.
Opt(k, vals) == {EmptyRec} \cup {Rec1(k, v) : v \in vals}

\* Binding records over the names p, q, r.
LogicBindings ==
    {x @@ y @@ z : x \in Opt("p", {BoolV(TRUE), BoolV(FALSE), IntV(1)}),
                   y \in Opt("q", {BoolV(TRUE), BoolV(FALSE)}),
                   z \in Opt("r", {BoolV(FALSE)})}

\* Binding records over the keys a.b.c, a.b and a.
PathBindings ==
    {x @@ y @@ z :
        x \in Opt("a.b.c", {IntV(1)}),
        y \in Opt("a.b", {ObjV(Rec1("c", IntV(2))), ObjV(EmptyRec), IntV(2)}),
        z \in Opt("a", {ObjV(Rec1("b", ObjV(Rec1("c", IntV(3))))),
                        ObjV(Rec1("b", ObjV(Rec1("c", Null)))),
                        ObjV(Rec1("b", ObjV(EmptyRec))),
                        ObjV(EmptyRec)})}

\* Binding records over the keys x.y.z, x.z and z.
ContainerBindings ==
    {x @@ y @@ z : x \in Opt("x.y.z", {IntV(1)}),
                   y \in Opt("x.z", {IntV(2)}),
                   z \in Opt("z", {IntV(3)})}

\* The first segment of the keys of each family.
RootsOf(b) ==
    IF b \in LogicBindings THEN {"p", "q", "r"} \cap DOMAIN b
    ELSE IF b \in PathBindings THEN {"a"}
    ELSE {"z"}

AllBindings == LogicBindings \cup PathBindings \cup ContainerBindings

\* A binding object its owner never changes: the object is identified by its
\* contents (obj), which are what evaluate reads (b).
Frozen(b) == [given |-> TRUE, b |-> b, obj |-> b]

\* The arguments evaluate is called with for a compiled expression: no
\* argument, the empty record, and the records that bind a name of its
\* manifest (by itself or under a dotted key).
Arguments(c) ==
    {[given |-> FALSE, b |-> EmptyRec, obj |-> EmptyRec], Frozen(EmptyRec)}
    \cup {Frozen(b) :
            b \in {x \in AllBindings :
                     \E i \in 1..Len(c.bindingNames) : c.bindingNames[i] \in RootsOf(x)}}

-----------------------------------------------------------------------------
(* State machine *)

\* evaluate() without an argument; the cache variable before the first call.
NoArgument == [given |-> FALSE, b |-> EmptyRec, obj |-> EmptyRec]

\* The caller's binding objects are not tracked: each record passed is frozen.
NoHeap == <<>>

NoCall == [arg |-> NoArgument, called |-> FALSE, after |-> EmptyRec,
           result |-> Undef, outcome |-> [kind |-> "none"], trace |-> <<>>]

NoArith == [op |-> "none", a |-> 0, b |-> 0, r |-> Undef]

NoRt == [op |-> "none", in |-> <<>>, r |-> Undef]

\* The state after compile(cel, {container}) returned.
Init ==
    /\ \E e \in Exprs, container \in Containers : compiled = compile(e, container)
    /\ cachedBindingsArg = NoArgument
    /\ cachedBindings = defaultQualifiedBindings
    /\ call = NoCall
    /\ arith = NoArith
    /\ heap = NoHeap
    /\ rt = NoRt

\* evaluate(bindings).  call.arg holds the contents of the object passed as
\* they were at the call, call.after as they are when evaluate returns or
\* throws; an object the caller tracks (heap) takes the latter.
Evaluate(bindings) ==
    LET rq == resolveQB(compiled, bindings, cachedBindingsArg, cachedBindings)
        args == [i \in 1..Len(compiled.bindingNames) |->
                    resolveBinding(compiled.container, compiled.bindingNames[i],
                                   bindings, rq.qb)]
        run == compiledFn(compiled.program, rq.qb, args)
    IN  /\ cachedBindingsArg' = rq.cachedArg
        /\ cachedBindings' = rq.cached
        /\ call' = [arg |-> bindings, called |-> TRUE, after |-> rq.bindings,
                    result |-> run.v, outcome |-> checkResult(run.v), trace |-> run.tr]
        /\ heap' = IF DOMAIN heap # {} /\ bindings.given
                   THEN [heap EXCEPT ![bindings.obj] = rq.bindings]
                   ELSE heap
        /\ UNCHANGED <<compiled, arith, rt>>

Next == \E bindings \in Arguments(compiled) : Evaluate(bindings)

Spec == Init /\ [][Next]_vars

-----------------------------------------------------------------------------
(* The arithmetic helpers called directly on two ints *)

Int64 == INT64_MIN..INT64_MAX

InitArith ==
    /\ compiled = compile(BoolLiteral(TRUE), <<>>)
    /\ cachedBindingsArg = NoArgument
    /\ cachedBindings = defaultQualifiedBindings
    /\ call = NoCall
    /\ heap = NoHeap
    /\ \E a \in Int64, b \in Int64 : arith = [op |-> "none", a |-> a, b |-> b, r |-> Undef]
    /\ rt = NoRt

ArithAdd ==
    /\ arith' = [arith EXCEPT !.op = "add", !.r = celAdd(IntV(arith.a), IntV(arith.b))]
    /\ UNCHANGED <<compiled, cachedBindingsArg, cachedBindings, call, rt, heap>>

ArithSub ==
    /\ arith' = [arith EXCEPT !.op = "sub", !.r = celSub(IntV(arith.a), IntV(arith.b))]
    /\ UNCHANGED <<compiled, cachedBindingsArg, cachedBindings, call, rt, heap>>

ArithMul ==
    /\ arith' = [arith EXCEPT !.op = "mul", !.r = celMul(IntV(arith.a), IntV(arith.b))]
    /\ UNCHANGED <<compiled, cachedBindingsArg, cachedBindings, call, rt, heap>>

ArithDiv ==
    /\ arith' = [arith EXCEPT !.op = "div", !.r = celDiv(IntV(arith.a), IntV(arith.b))]
    /\ UNCHANGED <<compiled, cachedBindingsArg, cachedBindings, call, rt, heap>>

ArithNeg ==
    /\ arith' = [arith EXCEPT !.op = "neg", !.r = celNeg(IntV(arith.a))]
    /\ UNCHANGED <<compiled, cachedBindingsArg, cachedBindings, call, rt, heap>>

NextArith == ArithAdd \/ ArithSub \/ ArithMul \/ ArithDiv \/ ArithNeg

SpecArith == InitArith /\ [][NextArith]_vars


-----------------------------------------------------------------------------
(* The runtime helpers called directly.  rt.in holds the operands drawn at *)
(* the start, rt.op the helper called last and rt.r its result.            *)

\* The driver's variables while only runtime helpers are called.
DriverIdle ==
    /\ compiled = compile(BoolLiteral(TRUE), <<>>)
    /\ cachedBindingsArg = NoArgument
    /\ cachedBindings = defaultQualifiedBindings
    /\ call = NoCall
    /\ arith = NoArith
    /\ heap = NoHeap

\* What a call of a runtime helper leaves alone.
driverVars == <<compiled, cachedBindingsArg, cachedBindings, call, arith, heap>>

\* Values of every CEL type the equality helpers tell apart.
EqValues ==
    {Null, BoolV(TRUE), BoolV(FALSE), IntV(0), IntV(1), UintV(1), DoubleV(1),
     StrV(""), StrV("a"), StrV("1"),
     ListV(<<>>), ListV(<<IntV(1)>>), ListV(<<DoubleV(1)>>),
     MapV(<<>>), MapV(<< <<IntV(1), StrV("a")>> >>), MapV(<< <<StrV("a"), IntV(1)>> >>),
     CelType("int")}

InitEq ==
    /\ DriverIdle
    /\ \E a \in EqValues, b \in EqValues : rt = [op |-> "none", in |-> <<a, b>>, r |-> Undef]

RtEq ==
    /\ rt' = [rt EXCEPT !.op = "eq",
                       !.r = celEq(rt.in[1], rt.in[2])]
    /\ UNCHANGED driverVars

RtNe ==
    /\ rt' = [rt EXCEPT !.op = "ne",
                       !.r = celNe(rt.in[1], rt.in[2])]
    /\ UNCHANGED driverVars

NextEq == RtEq \/ RtNe

SpecEq == InitEq /\ [][NextEq]_vars

\* The left operands of in, and its right operands: lists, maps and values
\* that are neither.
InKeys == {Null, BoolV(TRUE), IntV(0), IntV(1), UintV(1), DoubleV(1), StrV("a"),
           ListV(<<IntV(1)>>)}

InCollections ==
    {ListV(<<>>), ListV(<<IntV(1)>>), ListV(<<StrV("a"), DoubleV(1)>>),
     ListV(<<IntV(0), UintV(1)>>), ListV(<<Null, ListV(<<DoubleV(1)>>)>>),
     ListV(<<ListV(<<IntV(0)>>), BoolV(FALSE)>>),
     MapV(<<>>), MapV(<< <<IntV(1), StrV("a")>> >>),
     MapV(<< <<StrV("a"), IntV(0)>>, <<UintV(1), IntV(1)>> >>),
     MapV(<< <<BoolV(TRUE), Null>>, <<IntV(0), IntV(1)>> >>),
     MapV(<< <<StrV("b"), StrV("a")>> >>),
     ObjV(Rec1("a", IntV(1))), StrV("a"), IntV(1), Null, Undef}

InitIn ==
    /\ DriverIdle
    /\ \E k \in InKeys, c \in InCollections : rt = [op |-> "none", in |-> <<k, c>>, r |-> Undef]

RtIn ==
    /\ rt' = [rt EXCEPT !.op = "in",
                       !.r = celIn(rt.in[1], rt.in[2])]
    /\ UNCHANGED driverVars

NextIn == RtIn

SpecIn == InitIn /\ [][NextIn]_vars

\* The components handed to the list and map constructors: keys and values,
\* the error sentinel among them, and whether the entry is written ?k: v.
EntryKeys == {IntV(1), UintV(1), DoubleV(1), StrV("a"), Undef}

EntryValues == {IntV(0), Undef, OptionalOf(IntV(1)), OptionalNone}

Entries == {<<k, v, o>> : k \in EntryKeys, v \in EntryValues, o \in BOOLEAN}

EntryLists == UNION {[1..n -> Entries] : n \in 0..MaxEntries}

InitMake ==
    /\ DriverIdle
    /\ \E es \in EntryLists : rt = [op |-> "none", in |-> es, r |-> Undef]

\* [v1, v2, ..]
RtMakeList ==
    /\ rt' = [rt EXCEPT !.op = "makeList",
                       !.r = celMakeList([i \in 1..Len(rt.in) |-> rt.in[i][2]])]
    /\ UNCHANGED driverVars

\* {k1: v1, k2: v2, ..}
RtMakeMap ==
    /\ rt' = [rt EXCEPT !.op = "makeMap",
                       !.r = celMakeMap([i \in 1..Len(rt.in) |-> <<rt.in[i][1], rt.in[i][2]>>])]
    /\ UNCHANGED driverVars

\* {?k1: v1, k2: v2, ..}
RtMakeMapOptional ==
    /\ rt' = [rt EXCEPT !.op = "makeMapOptional",
                       !.r = celMakeMapOptional(rt.in)]
    /\ UNCHANGED driverVars

\* The accumulator of a map-producing comprehension after its steps
\* accu = mapInsert(accu, k, v), started from the empty map.
RECURSIVE MapInsertAll(_, _)
MapInsertAll(accu, entries) ==
    IF entries = <<>> THEN accu
    ELSE MapInsertAll(celMapInsert(accu, Head(entries)[1], Head(entries)[2]), Tail(entries))

RtMapInsert ==
    /\ rt' = [rt EXCEPT !.op = "mapInsert",
                       !.r = MapInsertAll(MapV(<<>>), rt.in)]
    /\ UNCHANGED driverVars

\* optional.of(v1)
RtOptionalOf ==
    /\ Len(rt.in) = 1
    /\ rt' = [rt EXCEPT !.op = "optionalOf", !.r = celOptionalOf(rt.in[1][2])]
    /\ UNCHANGED driverVars

NextMake == RtMakeList \/ RtMakeMap \/ RtMakeMapOptional \/ RtMapInsert \/ RtOptionalOf

SpecMake == InitMake /\ [][NextMake]_vars

-----------------------------------------------------------------------------
(* The quantifier macros: the runtime helpers and the compiled comprehension *)

\* x.all(v, P) as the parser expands it.
ExpandAll(iterVar, iterRange, predicate) ==
    Comprehension(iterVar, iterRange, "__result__", BoolLiteral(TRUE),
                  Call("@not_strictly_false", <<Ident("__result__")>>),
                  Call("_&&_", <<Ident("__result__"), predicate>>),
                  Ident("__result__"))

\* x.exists(v, P) as the parser expands it: the same shape, the loop
\* condition !accuVar under the error-tolerant probe.
ExpandExists(iterVar, iterRange, predicate) ==
    Comprehension(iterVar, iterRange, "__result__", BoolLiteral(FALSE),
                  Call("@not_strictly_false", <<Call("!_", <<Ident("__result__")>>)>>),
                  Call("_||_", <<Ident("__result__"), predicate>>),
                  Ident("__result__"))

\* 1 / v == 1: an error at v = 0, true at v = 1, false at v = 2.
QuantPredicate == Call("_==_", <<Call("_/_", <<IntLiteral(1), Ident("v")>>), IntLiteral(1)>>)

AllExpr == ExpandAll("v", Ident("x"), QuantPredicate)
ExistsExpr == ExpandExists("v", Ident("x"), QuantPredicate)

QuantElems == {IntV(0), IntV(1), IntV(2)}

\* The predicate as the JavaScript callback handed to celAll and celExists.
QuantCallback == [v \in QuantElems |-> celEq(celDiv(IntV(1), v), IntV(1))]

QuantLists ==
    UNION {{ListV(l) : l \in [1..n -> QuantElems]} : n \in 0..MaxList}

InitQuant ==
    /\ \E e \in {AllExpr, ExistsExpr} : compiled = compile(e, <<>>)
    /\ cachedBindingsArg = NoArgument
    /\ cachedBindings = defaultQualifiedBindings
    /\ call = NoCall
    /\ arith = NoArith
    /\ heap = NoHeap
    /\ \E list \in QuantLists \cup {IntV(0)} :
          rt = [op |-> "none", in |-> <<list>>, r |-> Undef]

\* evaluate({x: list}) of the compiled macro
EvaluateQuant ==
    /\ ~call.called
    /\ Evaluate(Frozen("x" :> rt.in[1]))

RtAll ==
    /\ rt' = [rt EXCEPT !.op = "all", !.r = celAll(rt.in[1], QuantCallback)]
    /\ UNCHANGED driverVars

RtExists ==
    /\ rt' = [rt EXCEPT !.op = "exists", !.r = celExists(rt.in[1], QuantCallback)]
    /\ UNCHANGED driverVars

NextQuant == EvaluateQuant \/ RtAll \/ RtExists

SpecQuant == InitQuant /\ [][NextQuant]_vars

-----------------------------------------------------------------------------
(* One compiled closure called with binding objects their owner changes *)

\* The caller's binding objects.
Refs == {"B1", "B2"}

\* What a binding object holds: a, with c = 3 or c null below a.b, and
\* possibly the dotted key a.b.c.
HeapContents ==
    {x @@ z : x \in Opt("a.b.c", {IntV(1)}),
              z \in {Rec1("a", ObjV(Rec1("b", ObjV(Rec1("c", IntV(3)))))),
                     Rec1("a", ObjV(Rec1("b", ObjV(Rec1("c", Null)))))}}

\* The object ref as an argument of evaluate.
Object(ref) == [given |-> TRUE, b |-> heap[ref], obj |-> ref]

InitCache ==
    /\ \E container \in Containers : compiled = compile(PathABC, container)
    /\ cachedBindingsArg = NoArgument
    /\ cachedBindings = defaultQualifiedBindings
    /\ call = NoCall
    /\ arith = NoArith
    /\ rt = NoRt
    /\ heap \in [Refs -> HeapContents]

\* evaluate(B) with one of the caller's objects
EvaluateObject ==
    /\ DOMAIN heap = Refs
    /\ \E ref \in Refs : Evaluate(Object(ref))

\* The caller assigns the properties of one of its objects between calls.
Mutate ==
    /\ \E ref \in Refs, contents \in HeapContents :
          heap' = [heap EXCEPT ![ref] = contents]
    /\ UNCHANGED <<compiled, cachedBindingsArg, cachedBindings, call, arith, rt>>

NextCache == EvaluateObject \/ Mutate

SpecCache == InitCache /\ [][NextCache]_vars

-----------------------------------------------------------------------------
(* has() on struct literals *)

Proto2Name == "cel.expr.conformance.proto2.TestAllTypes"
Proto3Name == "cel.expr.conformance.proto3.TestAllTypes"

\* The scalar fields a literal sets, each with its type default and another
\* value of its type.
ScalarValues ==
    [single_int64 |-> {IntV(0), IntV(1)},
     single_bool |-> {BoolV(FALSE), BoolV(TRUE)},
     single_string |-> {StrV(""), StrV("a")},
     single_nested_enum |-> {IntV(0), IntV(1)},
     oneof_bool |-> {BoolV(FALSE), BoolV(TRUE)}]

ScalarFields == DOMAIN ScalarValues

\* The fields has() is asked about: the scalar ones and one the message
\* type does not declare.
HasFields == ScalarFields \cup {"undeclared"}

\* The entries of a struct literal: up to two fields, in either order.
StructEntries ==
    {<<>>}
    \cup {<< <<f, v>> >> : f \in ScalarFields, v \in UNION {ScalarValues[g] : g \in ScalarFields}}
    \cup {<< <<f, v>>, <<g, w>> >> :
            f \in ScalarFields, g \in ScalarFields,
            v \in UNION {ScalarValues[h] : h \in ScalarFields},
            w \in UNION {ScalarValues[h] : h \in ScalarFields}}

InitHas ==
    /\ DriverIdle
    /\ \E name \in {Proto2Name, Proto3Name}, field \in HasFields :
       \E entries \in {es \in StructEntries :
                          \A i \in 1..Len(es) : es[i][2] \in ScalarValues[es[i][1]]} :
          rt = [op |-> "none", in |-> <<StrV(name), entries, StrV(field)>>, r |-> Undef]

\* has(Name{entries}.field)
RtHas ==
    /\ rt' = [rt EXCEPT !.op = "has",
                       !.r = celHas(celMakeStruct(rt.in[1].s, rt.in[2]), rt.in[3].s)]
    /\ UNCHANGED driverVars

NextHas == RtHas

SpecHas == InitHas /\ [][NextHas]_vars

-----------------------------------------------------------------------------
(* cidr.containsIP *)

\* IPv4 addresses around 192.168.0.0: differing from it in the first bit, in
\* the last bit of the first byte, in the second and third bytes, in the last
\* bits; and the two extremes.
V4Addresses ==
    {IpV(<<192, 168, 0, 0>>), IpV(<<192, 168, 0, 1>>), IpV(<<192, 168, 0, 42>>),
     IpV(<<192, 168, 1, 1>>), IpV(<<192, 169, 0, 0>>), IpV(<<193, 168, 0, 0>>),
     IpV(<<64, 168, 0, 0>>), IpV(<<0, 0, 0, 0>>), IpV(<<255, 255, 255, 255>>)}

\* IPv6 addresses around 2001:db8::, and c0a8:: whose first bytes are those
\* of 192.168.0.0.
V6Addresses ==
    {IpV(V6Bytes(32, 1, 13, 184, 0)), IpV(V6Bytes(32, 1, 13, 184, 1)),
     IpV(V6Bytes(32, 1, 13, 185, 0)), IpV(V6Bytes(160, 1, 13, 184, 0)),
     IpV(V6Bytes(192, 168, 0, 0, 0)), IpV(V6Bytes(0, 0, 0, 0, 0))}

\* The CIDRs celNetCIDR builds from them: any prefix up to the address length.
Cidrs ==
    {CidrV(ip, prefix) : ip \in V4Addresses, prefix \in 0..32}
    \cup {CidrV(ip, prefix) : ip \in V6Addresses, prefix \in 0..128}

\* The arguments of containsIP: addresses, address strings, a string that is
\* no address and a value of another type.
IpArguments ==
    V4Addresses \cup V6Addresses
    \cup {StrV("192.168.0.1"), StrV("192.168.1.1"), StrV("2001:db8::1"), StrV("nonsense"),
          IntV(1)}

InitCidr ==
    /\ DriverIdle
    /\ \E c \in Cidrs, x \in IpArguments :
          rt = [op |-> "none", in |-> <<c, x>>, r |-> Undef]

\* c.containsIP(x)
RtContainsIP ==
    /\ rt' = [rt EXCEPT !.op = "containsIP",
                       !.r = celCIDRContainsIP(rt.in[1], rt.in[2])]
    /\ UNCHANGED driverVars

NextCidr == RtContainsIP

SpecCidr == InitCidr /\ [][NextCidr]_vars

-----------------------------------------------------------------------------
(* celComprehension called with condition, step and result functions *)

\* The elements ranged over: objects whose field c is true (two of them),
\* false, missing (selecting it is an error) or not a bool.
ComprElems ==
    {ObjV(Rec1("c", BoolV(TRUE))),
     ObjV(Rec1("c", BoolV(TRUE)) @@ Rec1("d", IntV(1))),
     ObjV(Rec1("c", BoolV(FALSE))),
     ObjV(EmptyRec),
     ObjV(Rec1("c", IntV(1)))}

\* The ranges: lists of them, maps with them as keys, and a value that is
\* neither.
ComprRanges ==
    UNION {{ListV(l) : l \in [1..n -> ComprElems]} : n \in 0..MaxRange}
    \cup UNION {{MapV([i \in 1..n |-> <<l[i], Null>>]) :
                    l \in {f \in [1..n -> ComprElems] :
                             \A i, j \in 1..n : i # j => f[i] # f[j]}} : n \in 0..MaxRange}
    \cup {IntV(1)}

\* (v, acc) => _rt.select(acc, "c") and (v, acc) => _rt.select(v, "c")
ComprConditions ==
    {arrowFn(<<"v", "acc">>, rtCall("select", <<identifier(name), literal(StrV("c"))>>)) :
        name \in {"acc", "v"}}

\* (v, acc) => v: the step makes the element the accumulator.
ComprStep == arrowFn(<<"v", "acc">>, identifier("v"))

\* (acc) => _rt.dyn(acc)
ComprResult == arrowFn(<<"acc">>, rtCall("dyn", <<identifier("acc")>>))

InitCompr ==
    /\ DriverIdle
    /\ \E range \in ComprRanges, init \in ComprElems, condFn \in ComprConditions :
          rt = [op |-> "none", in |-> <<range, init, condFn>>, r |-> Undef, tr |-> <<>>]

\* _rt.comprehension(range, init, "v", "acc", condFn, stepFn, resultFn)
RtComprehension ==
    LET run == JsEval(rtCall("comprehension",
                             <<literal(rt.in[1]), literal(rt.in[2]),
                               literal(StrV("v")), literal(StrV("acc")),
                               rt.in[3], ComprStep, ComprResult>>),
                      [vars |-> EmptyRec, temps |-> {}])
    IN  /\ rt' = [rt EXCEPT !.op = "comprehension", !.r = run.v, !.tr = run.tr]
        /\ UNCHANGED driverVars

NextCompr == RtComprehension

SpecCompr == InitCompr /\ [][NextCompr]_vars

-----------------------------------------------------------------------------
(* filter: the direct loop and the generic comprehension *)

\* _rt.select(v, "c"): the predicate, true, false, an error or not a bool
\* by the element.
FilterTest == rtCall("select", <<identifier("v"), literal(StrV("c"))>>)

\* (v) => _rt.select(v, "c")
FilterPredicate == arrowFn(<<"v">>, FilterTest)

\* The generic filter: starts from the empty list, loops while true, and its
\* step is  P ? acc + [v] : acc.
FilterComprehension(range) ==
    rtCall("comprehension",
        <<literal(range), rtCall("makeList", <<arrayExpr(<<>>)>>),
          literal(StrV("v")), literal(StrV("acc")),
          arrowFn(<<"v", "acc">>, literal(BoolV(TRUE))),
          arrowFn(<<"v", "acc">>,
                  transformTernary(FilterTest,
                      rtCall("add", <<identifier("acc"),
                                      rtCall("makeList", <<arrayExpr(<<identifier("v")>>)>>)>>),
                      identifier("acc"))),
          arrowFn(<<"acc">>, identifier("acc"))>>)

NotRun == [done |-> FALSE, v |-> Undef]

InitFilter ==
    /\ DriverIdle
    /\ \E range \in ComprRanges :
          rt = [op |-> "none", in |-> <<range>>, r |-> Undef,
                fast |-> NotRun, generic |-> NotRun]

\* _rt.filterList(range, predicate)
RtFilterList ==
    LET run == JsEval(rtCall("filterList", <<literal(rt.in[1]), FilterPredicate>>),
                      [vars |-> EmptyRec, temps |-> {}])
    IN  /\ rt' = [rt EXCEPT !.op = "filterList", !.r = run.v,
                            !.fast = [done |-> TRUE, v |-> run.v]]
        /\ UNCHANGED driverVars

\* _rt.comprehension(range, [], "v", "acc", () => true, step, acc => acc)
RtFilterComprehension ==
    LET run == JsEval(FilterComprehension(rt.in[1]), [vars |-> EmptyRec, temps |-> {}])
    IN  /\ rt' = [rt EXCEPT !.op = "comprehension", !.r = run.v,
                            !.generic = [done |-> TRUE, v |-> run.v]]
        /\ UNCHANGED driverVars

NextFilter == RtFilterList \/ RtFilterComprehension

SpecFilter == InitFilter /\ [][NextFilter]_vars

-----------------------------------------------------------------------------
(* duration(string), duration + duration, duration - duration and          *)
(* timestamp - timestamp.  A string is the sequence of its characters.     *)

IsDigit(c) == c \in {"0", "1", "2", "3", "4", "5", "6", "7", "8", "9"}

DigitValue(c) == CHOOSE i \in 0..9 : Digits36[i + 1] = c

\* \d+ : how many digits the string starts with.
RECURSIVE DigitsLen(_)
DigitsLen(s) == IF s # <<>> /\ IsDigit(Head(s)) THEN 1 + DigitsLen(Tail(s)) ELSE 0

\* The number a string of digits spells.
RECURSIVE DigitsValue(_)
DigitsValue(s) ==
    IF s = <<>> THEN 0 ELSE 10 * DigitsValue(SubSeq(s, 1, Len(s) - 1)) + DigitValue(s[Len(s)])

\* The most digits a fraction can have in a string of MaxDurationString
\* characters: a digit, the point and the unit take three.
FracDigits == MaxDurationString - 3

\* Number(m[1]) and totalNanos are kept exactly, as a count of
\* 1/FracScale: the model leaves the rounding of doubles out.
FracScale == 10 ^ FracDigits

\* (h|m(?!s)|s|ms|us|ns) at the head of the string, "" when none matches.
MatchUnit(s) ==
    LET c1 == IF Len(s) >= 1 THEN s[1] ELSE ""
        c2 == IF Len(s) >= 2 THEN s[2] ELSE ""
    IN  IF c1 = "h" THEN "h"
        ELSE IF c1 = "m" /\ c2 # "s" THEN "m"
        ELSE IF c1 = "s" THEN "s"
        ELSE IF c1 = "m" /\ c2 = "s" THEN "ms"
        ELSE IF c1 = "u" /\ c2 = "s" THEN "us"
        ELSE IF c1 = "n" /\ c2 = "s" THEN "ns"
        ELSE ""

\* The switch over the unit.  "ms" and "us", a thousandth and a millionth of
\* a second, have no counterpart at the scale of the model, and
\* DurationChars has neither "m" nor "u".
UnitNanos(unit) ==
    CASE unit = "h" -> 3600 * NanosPerSecond
      [] unit = "m" -> 60 * NanosPerSecond
      [] unit = "s" -> NanosPerSecond
      [] unit = "ns" -> 1

\* partRe.exec(rest): the number in 1/FracScale, the unit and the length of
\* the match; ok is FALSE when the pattern does not match.
MatchPart(rest) ==
    LET intLen == DigitsLen(rest)
        afterInt == SubSeq(rest, intLen + 1, Len(rest))
        fracLen == IF afterInt # <<>> /\ Head(afterInt) = "."
                   THEN DigitsLen(Tail(afterInt)) ELSE 0
        numLen == IF fracLen > 0 THEN intLen + 1 + fracLen ELSE intLen
        unit == MatchUnit(SubSeq(rest, numLen + 1, Len(rest)))
    IN  IF intLen = 0 \/ unit = "" THEN [ok |-> FALSE]
        ELSE [ok |-> TRUE,
              num |-> DigitsValue(SubSeq(rest, 1, intLen)) * FracScale
                      + DigitsValue(SubSeq(rest, intLen + 2, intLen + 1 + fracLen))
                        * 10 ^ (FracDigits - fracLen),
              unit |-> unit,
              len |-> numLen + Len(unit)]

\* The while loop: totalNanos in 1/FracScale, or ok FALSE on a mismatch.
RECURSIVE parseDurationParts(_, _)
parseDurationParts(rest, totalNanos) ==
    IF rest = <<>> THEN [ok |-> TRUE, total |-> totalNanos]
    ELSE LET m == MatchPart(rest)
         IN  IF ~m.ok THEN [ok |-> FALSE, total |-> 0]
             ELSE parseDurationParts(SubSeq(rest, m.len + 1, Len(rest)),
                                     totalNanos + m.num * UnitNanos(m.unit))

\* Math.round of n/FracScale: the nearest integer, a half going up.
MathRound(n) == (2 * n + FracScale) \div (2 * FracScale)

parseDurationString(s) ==
    IF Len(s) = 0 THEN Undef
    ELSE LET neg == s[1] = "-"
             rest == IF neg THEN Tail(s) ELSE s
         IN  IF Len(rest) = 0 THEN Undef
             ELSE LET parts == parseDurationParts(rest, 0)
                      totalNanos == IF neg THEN -parts.total ELSE parts.total
                      seconds == BigIntDiv(totalNanos, NanosPerSecond * FracScale)
                      nanos == MathRound(BigIntRem(totalNanos, NanosPerSecond * FracScale))
                      bigTotalNanos == seconds * NanosPerSecond + nanos
                  IN  IF ~parts.ok THEN Undef
                      ELSE IF bigTotalNanos > INT64_MAX \/ bigTotalNanos < INT64_MIN
                      THEN Undef
                      ELSE DurationV(seconds, nanos)

celDuration(v) ==
    IF isCelDuration(v) THEN v
    ELSE IF isStr(v) THEN parseDurationString(v.s)
    ELSE Undef

\* The characters of the strings: a sign, digits, the point, the letters of
\* the units s and ns.
DurationChars == {"-", "0", "1", "9", ".", "s", "n"}

DurationStrings ==
    UNION {[1..n -> DurationChars] : n \in 0..MaxDurationString}

\* The durations duration(string) returns.
ParsedDurations == {parseDurationString(s) : s \in DurationStrings} \ {Undef}

\* Timestamps as celTimestamp builds them: nanos in 0..NanosPerSecond - 1.
Timestamps ==
    {TimestampV(sec, n) : sec \in TIMESTAMP_MIN_SEC..TIMESTAMP_MAX_SEC,
                          n \in 0..(NanosPerSecond - 1)}

InitDuration ==
    /\ DriverIdle
    /\ \/ \E s \in DurationStrings : rt = [op |-> "none", in |-> <<StrV(s)>>, r |-> Undef]
       \/ \E a, b \in ParsedDurations \cup Timestamps :
             rt = [op |-> "none", in |-> <<a, b>>, r |-> Undef]

\* duration(s)
RtDuration ==
    /\ Len(rt.in) = 1
    /\ rt' = [rt EXCEPT !.op = "duration", !.r = celDuration(rt.in[1])]
    /\ UNCHANGED driverVars

\* a + b
RtAddDurations ==
    /\ Len(rt.in) = 2
    /\ rt' = [rt EXCEPT !.op = "add", !.r = celAdd(rt.in[1], rt.in[2])]
    /\ UNCHANGED driverVars

\* a - b
RtSubDurations ==
    /\ Len(rt.in) = 2
    /\ rt' = [rt EXCEPT !.op = "sub", !.r = celSub(rt.in[1], rt.in[2])]
    /\ UNCHANGED driverVars

NextDuration == RtDuration \/ RtAddDurations \/ RtSubDurations

SpecDuration == InitDuration /\ [][NextDuration]_vars

-----------------------------------------------------------------------------
(* int(v).  A string is the sequence of its characters.                    *)

\* The value of a digit or letter in a radix up to 36, -1 for another
\* character.
RadixValue(c) ==
    IF \E i \in 1..Len(Digits36) : Digits36[i] = c
    THEN (CHOOSE i \in 1..Len(Digits36) : Digits36[i] = c) - 1
    ELSE -1

\* A non-empty string of digits of the radix.
IsDigitsOf(s, radix) ==
    /\ s # <<>>
    /\ \A i \in 1..Len(s) : RadixValue(s[i]) >= 0 /\ RadixValue(s[i]) < radix

\* The number the digits spell in the radix.
RECURSIVE RadixDigitsValue(_, _)
RadixDigitsValue(s, radix) ==
    IF s = <<>> THEN 0
    ELSE radix * RadixDigitsValue(SubSeq(s, 1, Len(s) - 1), radix) + RadixValue(s[Len(s)])

\* String.prototype.trim: white space removed at both ends.
RECURSIVE TrimString(_)
TrimString(s) ==
    IF s # <<>> /\ Head(s) = " " THEN TrimString(Tail(s))
    ELSE IF s # <<>> /\ s[Len(s)] = " " THEN TrimString(SubSeq(s, 1, Len(s) - 1))
    ELSE s

\* BigInt(string), the StringToBigInt of ECMAScript: the trimmed string is
\* empty (0n), a decimal literal with an optional sign, or an unsigned
\* literal with the prefix 0x, 0o or 0b; anything else throws SyntaxError.
StringToBigInt(str) ==
    LET s == TrimString(str)
        prefix == IF Len(s) >= 2 THEN SubSeq(s, 1, 2) ELSE <<>>
        radix == IF prefix \in {<<"0", "x">>, <<"0", "X">>} THEN 16
                 ELSE IF prefix \in {<<"0", "o">>, <<"0", "O">>} THEN 8
                 ELSE IF prefix \in {<<"0", "b">>, <<"0", "B">>} THEN 2
                 ELSE 10
    IN  IF s = <<>> THEN [ok |-> TRUE, v |-> 0]
        ELSE IF radix # 10
        THEN (IF IsDigitsOf(SubSeq(s, 3, Len(s)), radix)
              THEN [ok |-> TRUE, v |-> RadixDigitsValue(SubSeq(s, 3, Len(s)), radix)]
              ELSE [ok |-> FALSE, v |-> 0])
        ELSE IF Head(s) \in {"+", "-"}
        THEN (IF IsDigitsOf(Tail(s), 10)
              THEN [ok |-> TRUE,
                    v |-> IF Head(s) = "-" THEN -RadixDigitsValue(Tail(s), 10)
                          ELSE RadixDigitsValue(Tail(s), 10)]
              ELSE [ok |-> FALSE, v |-> 0])
        ELSE IF IsDigitsOf(s, 10) THEN [ok |-> TRUE, v |-> RadixDigitsValue(s, 10)]
        ELSE [ok |-> FALSE, v |-> 0]

isBool(v) == v.t = "bool"

\* Doubles of the model are whole numbers; Math.trunc leaves them as they are.
celToInt(v) ==
    IF isInt(v) THEN v
    ELSE IF isCelUint(v) THEN (IF inInt64Range(v.u) THEN IntV(v.u) ELSE Undef)
    ELSE IF isDouble(v)
    THEN (IF v.d >= 2 ^ (IntBits - 1) \/ v.d <= -(2 ^ (IntBits - 1)) THEN Undef
          ELSE IntV(v.d))
    ELSE IF isBool(v) THEN (IF v.b THEN IntV(1) ELSE IntV(0))
    ELSE IF isStr(v)
    THEN LET r == StringToBigInt(v.s)
         IN  IF r.ok /\ inInt64Range(r.v) THEN IntV(r.v) ELSE Undef
    ELSE IF isCelTimestamp(v) THEN IntV(v.seconds)
    ELSE Undef

\* The characters of the strings: signs, digits around the ends of the int
\* range, the x of a hexadecimal prefix, the e of an exponent (a hexadecimal
\* digit too), the point and the space.
IntChars == {"-", "+", "0", "1", "8", "9", "x", "e", ".", " "}

IntStrings == UNION {[1..n -> IntChars] : n \in 0..MaxIntString}

\* Arguments of the other types int() converts.
IntArguments ==
    {IntV(1), UintV(1), UintV(UINT64_MAX), DoubleV(1), DoubleV(INT64_MIN),
     BoolV(TRUE), BoolV(FALSE), TimestampV(1, 0), Null}

InitToInt ==
    /\ DriverIdle
    /\ \/ \E s \in IntStrings : rt = [op |-> "none", in |-> <<StrV(s)>>, r |-> Undef]
       \/ \E x \in IntArguments : rt = [op |-> "none", in |-> <<x>>, r |-> Undef]

\* int(v)
RtToInt ==
    /\ rt' = [rt EXCEPT !.op = "toInt", !.r = celToInt(rt.in[1])]
    /\ UNCHANGED driverVars

NextToInt == RtToInt

SpecToInt == InitToInt /\ [][NextToInt]_vars

-----------------------------------------------------------------------------
(* transform over comprehensions with free identifiers *)

\* The comprehensions over v with accumulator acc: the range, the initial
\* value, the loop condition, the step and the result are each a literal, a
\* comprehension variable or an identifier of the caller.
FreeComprehensions ==
    {Comprehension("v", range, "acc", init, cond, step, result) :
        range \in {Ident("xs"), Ident("v")},
        init \in {BoolLiteral(FALSE), Ident("a0")},
        cond \in {BoolLiteral(TRUE), Ident("acc"), Ident("y")},
        step \in {Ident("v"), Ident("y"), Call("_==_", <<Ident("v"), Ident("z")>>)},
        result \in {Ident("acc"), Ident("w")}}

\* A comprehension alone, beside an identifier of the caller that also
\* occurs in it, and as the step of an enclosing comprehension.
FreeExprs ==
    FreeComprehensions
    \cup {Call("_==_", <<Ident("y"), c>>) : c \in FreeComprehensions}
    \cup {Comprehension("u", Ident("xs"), "acc2", BoolLiteral(FALSE), BoolLiteral(TRUE),
                         c, Ident("acc2")) : c \in FreeComprehensions}

InitFree ==
    /\ DriverIdle
    /\ \E e \in FreeExprs : rt = [op |-> "none", in |-> <<e>>, r |-> Undef]

\* transform(celAst)
RtTransform ==
    /\ rt' = [rt EXCEPT !.op = "transform", !.r = transform(rt.in[1])]
    /\ UNCHANGED driverVars

NextFree == RtTransform

SpecFree == InitFree /\ [][NextFree]_vars

-----------------------------------------------------------------------------
(* Comprehensions that select a field of their own variables, evaluated    *)
(* with bindings that hold a dotted key of the same spelling               *)

\* v.f and acc.f
IterField == Select(Ident("v"), "f", FALSE)
AccuField == Select(Ident("acc"), "f", FALSE)

\* The accumulator takes v.f of every element: the result is v.f of the last.
LastFieldExpr ==
    Comprehension("v", Ident("xs"), "acc", IntLiteral(0), BoolLiteral(TRUE),
                  IterField, Ident("acc"))

\* The accumulator takes every element: the result is acc.f of the last.
FieldOfLastExpr ==
    Comprehension("v", Ident("xs"), "acc", Ident("a0"), BoolLiteral(TRUE),
                  Ident("v"), AccuField)

\* xs.exists(v, v.f == 1)
ExistsFieldExpr == ExpandExists("v", Ident("xs"), Call("_==_", <<IterField, IntLiteral(1)>>))

ShadowExprs == {LastFieldExpr, FieldOfLastExpr, ExistsFieldExpr}

\* The elements of xs: objects with f = 1, with f = 2 and without f.
ShadowElems == {ObjV(Rec1("f", IntV(1))), ObjV(Rec1("f", IntV(2))), ObjV(EmptyRec)}

ShadowLists == UNION {{ListV(l) : l \in [1..n -> ShadowElems]} : n \in 0..MaxRange}

\* What the caller binds beside xs and a0: nothing, the dotted key "v.f" or
\* "acc.f", or an object under the name of the iteration variable.
ShadowExtras ==
    {EmptyRec, Rec1("v.f", IntV(1)), Rec1("v.f", IntV(3)), Rec1("acc.f", IntV(3)),
     Rec1("v", ObjV(Rec1("f", IntV(3))))}

ShadowBindings ==
    {(Rec1("xs", xs) @@ Rec1("a0", ObjV(Rec1("f", IntV(0))))) @@ extra :
        xs \in ShadowLists, extra \in ShadowExtras}

InitShadow ==
    /\ \E e \in ShadowExprs : compiled = compile(e, <<>>)
    /\ cachedBindingsArg = NoArgument
    /\ cachedBindings = defaultQualifiedBindings
    /\ call = NoCall
    /\ arith = NoArith
    /\ heap = NoHeap
    /\ rt = NoRt

\* evaluate(bindings)
EvaluateShadow ==
    /\ compiled.ast \in ShadowExprs
    /\ \E b \in ShadowBindings : Evaluate(Frozen(b))

NextShadow == EvaluateShadow

SpecShadow == InitShadow /\ [][NextShadow]_vars

-----------------------------------------------------------------------------
(* Nested negations and ternaries *)

\* p, q and true under up to n operators: the negation !e and the ternary
\* e ? q : r with e as its condition.
RECURSIVE NestedExprs(_)
NestedExprs(n) ==
    IF n = 0 THEN {Ident("p"), Ident("q"), BoolLiteral(TRUE)}
    ELSE LET below == NestedExprs(n - 1)
         IN  below
             \cup {Call("!_", <<e>>) : e \in below}
             \cup {Call("_?_:_", <<e, Ident("q"), Ident("r")>>) : e \in below}

\* p and q true, false or no bool; r true.
NestedBindings ==
    {(Rec1("p", p) @@ Rec1("q", q)) @@ Rec1("r", BoolV(TRUE)) :
        p \in {BoolV(TRUE), BoolV(FALSE), IntV(1)},
        q \in {BoolV(TRUE), BoolV(FALSE), IntV(1)}}

InitNested ==
    /\ \E e \in NestedExprs(MaxNest) : compiled = compile(e, <<>>)
    /\ cachedBindingsArg = NoArgument
    /\ cachedBindings = defaultQualifiedBindings
    /\ call = NoCall
    /\ arith = NoArith
    /\ heap = NoHeap
    /\ rt = NoRt

\* evaluate(bindings)
EvaluateNested ==
    /\ compiled.ast \in NestedExprs(MaxNest)
    /\ \E b \in NestedBindings : Evaluate(Frozen(b))

NextNested == EvaluateNested

SpecNested == InitNested /\ [][NextNested]_vars

-----------------------------------------------------------------------------
(* One TempAllocator through a compilation *)

\* new TempAllocator()
InitTemps ==
    /\ DriverIdle
    /\ rt = [op |-> "none", in |-> <<>>, r |-> Undef, temps |-> NewTempAllocator]

\* temps.next()
RtNext ==
    /\ rt.temps.counter < MaxTemps
    /\ LET after == TempAllocatorNext(rt.temps)
       IN  rt' = [rt EXCEPT !.op = "next", !.temps = after,
                           !.r = StrV(after.used[Len(after.used)])]
    /\ UNCHANGED driverVars

NextTemps == RtNext

SpecTemps == InitTemps /\ [][NextTemps]_vars

-----------------------------------------------------------------------------
(* transform over expressions whose identifiers start with an underscore *)

\* Identifiers of the caller: CEL admits a leading underscore.
UserNames == {"p", "q", "_a", "_b", "_c", "_rt", "_qb"}

\* l op r and (l op r) op2 x over these identifiers, op a logical operator
\* (two temporaries) or ==.
NameExprs ==
    LET pairs == {Call(fn, <<Ident(l), Ident(r)>>) :
                     fn \in {"_&&_", "_||_", "_==_"}, l \in UserNames, r \in UserNames}
    IN  pairs
        \cup {Call("_&&_", <<e, Ident(x)>>) :
                 e \in {Call("_||_", <<Ident("p"), Ident("q")>>)}, x \in UserNames}

InitNames ==
    /\ DriverIdle
    /\ \E e \in NameExprs : rt = [op |-> "none", in |-> <<e>>, r |-> Undef]

NextNames == RtTransform

SpecNames == InitNames /\ [][NextNames]_vars

-----------------------------------------------------------------------------
(* What the CEL expression denotes, stated without the emitted code *)

\* The value of a leaf operand under the bindings of the call: a literal is
\* its value, an identifier the value bound to it, 1/0 == 0 the error.
Denotes(e, arg) ==
    IF e = ErrExpr THEN Undef
    ELSE IF e.kind = "Ident" THEN Get(arg.b, e.name)
    ELSE IF e.kind = "NullLiteral" THEN Null
    ELSE e.value

\* The reads and runtime calls of an expression built from literals,
\* identifiers, strict operators, && and ||, every operand evaluated once,
\* left before right.
RECURSIVE CelOrder(_)
RECURSIVE CelOrderOfArgs(_)

CelOrderOfArgs(args) ==
    IF args = <<>> THEN <<>> ELSE CelOrder(Head(args)) \o CelOrderOfArgs(Tail(args))

CelOrder(e) ==
    IF e.kind = "Ident" THEN << <<"read", e.name>> >>
    ELSE IF e.kind = "Call" THEN
        IF e.fn \in {"_&&_", "_||_"} THEN CelOrderOfArgs(e.args)
        ELSE CelOrderOfArgs(e.args) \o << <<"call", OPERATOR_TO_RT(e.fn)>> >>
    ELSE <<>>

IsOperandEvent(ev) == ev[1] # "assign"

\* The trace ends with the events of e, none of them earlier.
EvaluatedLast(e, trace) ==
    LET o == CelOrder(e)
    IN  /\ Len(trace) >= Len(o)
        /\ SubSeq(trace, Len(trace) - Len(o) + 1, Len(trace)) = o
        /\ \A i \in 1..(Len(trace) - Len(o)) : \A j \in 1..Len(o) : trace[i] # o[j]

\* No event of e occurs in the trace.
NotEvaluated(e, trace) ==
    \A i \in 1..Len(trace) : \A j \in 1..Len(CelOrder(e)) : trace[i] # CelOrder(e)[j]

IsLogic(e) == e.kind = "Call" /\ e.fn \in {"_&&_", "_||_"}

IsTernary(e) == e.kind = "Call" /\ e.fn = "_?_:_"

-----------------------------------------------------------------------------
(* Claims *)

\* C1: evaluate throws CelError exactly when the compiled function's
\* result is the error sentinel undefined; every other result is returned
\* as it is.
C1_ThrowsIffSentinel ==
    call.called =>
        /\ (call.outcome = [kind |-> "throw", error |-> "CelError"])
             <=> (call.result = Undef)
        /\ call.result # Undef
             => call.outcome = [kind |-> "return", value |-> call.result]

\* C1 witness: an evaluation of INT64_MAX + 1 ended in the sentinel and
\* threw.
C1_Witness ==
    /\ call.called
    /\ compiled.ast = Call("_+_", <<IntLiteral(INT64_MAX), IntLiteral(1)>>)
    /\ call.result = Undef
    /\ call.outcome.kind = "throw"

\* The nine rows of && and of || over true, false and the error.
AndTable(a, b) ==
    IF a = BoolV(FALSE) \/ b = BoolV(FALSE) THEN BoolV(FALSE)
    ELSE IF a = BoolV(TRUE) /\ b = BoolV(TRUE) THEN BoolV(TRUE)
    ELSE Undef

OrTable(a, b) ==
    IF a = BoolV(TRUE) \/ b = BoolV(TRUE) THEN BoolV(TRUE)
    ELSE IF a = BoolV(FALSE) /\ b = BoolV(FALSE) THEN BoolV(FALSE)
    ELSE Undef

BoolOrError == {BoolV(TRUE), BoolV(FALSE), Undef}

\* C2: with operands that each evaluate to true, false or the error, a && b
\* is false if either is false, true if both are true, otherwise the error;
\* a || b is true if either is true, false if both are false, otherwise the
\* error.
C2_LogicTable ==
    (call.called /\ IsLogic(compiled.ast)
        /\ compiled.ast.args[1] \in LogicOperands
        /\ compiled.ast.args[2] \in LogicOperands) =>
        LET a == Denotes(compiled.ast.args[1], call.arg)
            b == Denotes(compiled.ast.args[2], call.arg)
        IN  (a \in BoolOrError /\ b \in BoolOrError) =>
                call.result = IF compiled.ast.fn = "_&&_" THEN AndTable(a, b)
                              ELSE OrTable(a, b)

\* C2 witness: error || true was evaluated, with the error on the left
\* coming from an unbound p, and gave true.
C2_Witness ==
    /\ call.called
    /\ compiled.ast = Call("_||_", <<Ident("p"), Ident("q")>>)
    /\ Denotes(Ident("p"), call.arg) = Undef
    /\ Denotes(Ident("q"), call.arg) = BoolV(TRUE)
    /\ call.result = BoolV(TRUE)

\* C3: a && b and a || b evaluate both operands on every call, the left one
\* first, whatever the left operand produced: the reads and runtime calls of
\* the evaluation are those of the operands, each once, left before right.
C3_BothOperandsInOrder ==
    (call.called /\ IsLogic(compiled.ast)) =>
        SelectSeq(call.trace, IsOperandEvent) = CelOrder(compiled.ast)

\* C3 witness: false && q was evaluated with p bound to false, and q was
\* read after p.
C3_Witness ==
    /\ call.called
    /\ compiled.ast = Call("_&&_", <<Ident("p"), Ident("q")>>)
    /\ Denotes(Ident("p"), call.arg) = BoolV(FALSE)
    /\ call.result = BoolV(FALSE)
    /\ SelectSeq(call.trace, IsOperandEvent) = << <<"read", "p">>, <<"read", "q">> >>

\* C4: c ? t : f gives t when c is true and f when c is false, without
\* evaluating the other branch; when c is anything else, the error included,
\* it gives the error and evaluates neither branch.
C4_Ternary ==
    (call.called /\ IsTernary(compiled.ast)) =>
        LET c == Denotes(compiled.ast.args[1], call.arg)
            t == compiled.ast.args[2]
            f == compiled.ast.args[3]
        IN  /\ c = BoolV(TRUE) =>
                /\ call.result = Denotes(t, call.arg)
                /\ EvaluatedLast(t, call.trace)
                /\ NotEvaluated(f, call.trace)
            /\ c = BoolV(FALSE) =>
                /\ call.result = Denotes(f, call.arg)
                /\ EvaluatedLast(f, call.trace)
                /\ NotEvaluated(t, call.trace)
            /\ c \notin {BoolV(TRUE), BoolV(FALSE)} =>
                /\ call.result = Undef
                /\ NotEvaluated(t, call.trace)
                /\ NotEvaluated(f, call.trace)

\* C4 witness: p ? q : r was evaluated with p bound to the int 1 and q and r
\* bound, and gave the error.
C4_Witness ==
    /\ call.called
    /\ compiled.ast = Call("_?_:_", <<Ident("p"), Ident("q"), Ident("r")>>)
    /\ Denotes(Ident("p"), call.arg) = IntV(1)
    /\ Denotes(Ident("q"), call.arg) = BoolV(TRUE)
    /\ Denotes(Ident("r"), call.arg) = BoolV(FALSE)
    /\ call.result = Undef

\* The field f of a value: undefined unless the value is a record with f.
FieldOf(v, f) == IF v.t = "object" /\ f \in DOMAIN v.o THEN v.o[f] ELSE Undef

\* C5: a.b.c resolves as the longest prefix that is a key of the bindings,
\* with the rest selected as fields: the key a.b.c itself, else field c of
\* the key a.b, else field c of field b of the key a, else the error.
C5_LongestPrefix ==
    (call.called /\ compiled.ast = PathABC) =>
        LET b == call.arg.b
        IN  call.result =
              IF "a.b.c" \in DOMAIN b THEN b["a.b.c"]
              ELSE IF "a.b" \in DOMAIN b THEN FieldOf(b["a.b"], "c")
              ELSE IF "a" \in DOMAIN b THEN FieldOf(FieldOf(b["a"], "b"), "c")
              ELSE Undef

\* C5 witness: a.b.c was evaluated with the keys a.b and a bound but not
\* a.b.c, and gave field c of a.b.
C5_Witness ==
    /\ call.called
    /\ compiled.ast = PathABC
    /\ DOMAIN call.arg.b = {"a.b", "a"}
    /\ call.arg.b["a.b"] = ObjV(Rec1("c", IntV(2)))
    /\ call.arg.b["a"] = ObjV(Rec1("b", ObjV(Rec1("c", IntV(3)))))
    /\ call.result = IntV(2)


\* C6: with container x.y, the name z is looked up as x.y.z, then x.z, then
\* z: the first of these keys that the bindings have gives the value.
C6_ContainerOrder ==
    (call.called /\ call.arg.given
        /\ compiled.ast = Ident("z") /\ compiled.container = <<"x", "y">>) =>
        LET b == call.arg.b
        IN  call.result =
              IF "x.y.z" \in DOMAIN b THEN b["x.y.z"]
              ELSE IF "x.z" \in DOMAIN b THEN b["x.z"]
              ELSE IF "z" \in DOMAIN b THEN b["z"]
              ELSE Undef

Exact(op, a, b) ==
    CASE op = "add" -> a + b
      [] op = "sub" -> a - b
      [] op = "mul" -> a * b
      [] op = "neg" -> 0 - a

\* C8: +, -, * and unary - on ints give the mathematical result when it
\* lies in [INT64_MIN, INT64_MAX] and the error otherwise; no result wraps.
C8_IntOverflow ==
    arith.op \in {"add", "sub", "mul", "neg"} =>
        LET m == Exact(arith.op, arith.a, arith.b)
        IN  arith.r = IF INT64_MIN <= m /\ m <= INT64_MAX THEN IntV(m) ELSE Undef

\* C8 witness: INT64_MIN * -1 was computed and gave the error.
C8_Witness ==
    /\ arith.op = "mul"
    /\ arith.a = INT64_MIN
    /\ arith.b = -1
    /\ arith.r = Undef

\* q is a divided by b with the fraction dropped: the remainder is smaller
\* than b in magnitude and is zero or has the sign of a.
IsTruncatedQuotient(q, a, b) ==
    LET rem == a - q * b
    IN  /\ Abs(rem) < Abs(b)
        /\ rem = 0 \/ ((rem < 0) <=> (a < 0))

\* C9: int division truncates toward zero; division by zero and
\* INT64_MIN / -1 give the error.
C9_IntDivision ==
    arith.op = "div" =>
        IF arith.b = 0 \/ (arith.a = INT64_MIN /\ arith.b = -1)
        THEN arith.r = Undef
        ELSE /\ arith.r.t = "int"
             /\ IsTruncatedQuotient(arith.r.n, arith.a, arith.b)

\* C9 witness: -7 / 2 was computed and gave -3.
C9_Witness ==
    /\ arith.op = "div"
    /\ arith.a = -7
    /\ arith.b = 2
    /\ arith.r = IntV(-3)

IntEqDouble == Call("_==_", <<IntLiteral(1), DoubleLiteral(1)>>)

DynIntEqDouble == Call("_==_", <<Call("dyn", <<IntLiteral(1)>>), DoubleLiteral(1)>>)

NumericTags == {"int", "uint", "double"}

C13_NoDuplicateKeys ==
    (rt.op \in {"makeMap", "makeMapOptional", "mapInsert"} /\ isMap(rt.r)) =>
        \A i, j \in 1..Len(rt.r.m) :
            i # j => celEq(rt.r.m[i][1], rt.r.m[j][1]) # BoolV(TRUE)

\* A list, map or optional with the error sentinel as an element, key or
\* value.
HoldsSentinel(v) ==
    CASE isList(v) -> \E i \in 1..Len(v.l) : v.l[i] = Undef
      [] isMap(v) -> \E i \in 1..Len(v.m) : v.m[i][1] = Undef \/ v.m[i][2] = Undef
      [] isCelOptional(v) -> v.has /\ v.v = Undef
      [] OTHER -> FALSE

\* The components a constructor call of the kind op receives from the
\* entries: the values, and for the map constructors the keys too.
Components(op, entries) ==
    {entries[i][2] : i \in 1..Len(entries)}
    \cup (IF op \in {"makeMap", "makeMapOptional", "mapInsert"}
          THEN {entries[i][1] : i \in 1..Len(entries)} ELSE {})

\* C14: no list, map or optional the constructors produce holds the error
\* sentinel as an element, key or value; a constructor that receives the
\* sentinel as a component gives the sentinel itself.
C14_SentinelNeverStored ==
    rt.op \in {"makeList", "makeMap", "makeMapOptional", "mapInsert", "optionalOf"} =>
        /\ ~HoldsSentinel(rt.r)
        /\ Undef \in Components(rt.op, rt.in) => rt.r = Undef

\* What the predicate 1 / v == 1 is at the elements of the list: the set of
\* its outcomes, error included.
Outcomes(list) ==
    {IF list.l[i] = IntV(0) THEN Undef ELSE BoolV(list.l[i] = IntV(1)) :
        i \in 1..Len(list.l)}

\* The quantifier results this state holds, each with the list it ran over:
\* the helper's and the compiled macro's.
QuantResults(op, ast) ==
    (IF rt.op = op /\ isList(rt.in[1]) THEN {<<rt.in[1], rt.r>>} ELSE {})
    \cup (IF call.called /\ compiled.ast = ast /\ isList(call.arg.b.x)
          THEN {<<call.arg.b.x, call.result>>} ELSE {})

\* C15: L.all(v, P) is false when P is false at some element, whatever
\* errors P gives at others; true when P is true at every element (the empty
\* list included); the error sentinel when P is never false and errors at
\* some element.
C15_AllAbsorbsErrors ==
    \A q \in QuantResults("all", AllExpr) :
        q[2] = IF BoolV(FALSE) \in Outcomes(q[1]) THEN BoolV(FALSE)
               ELSE IF Undef \in Outcomes(q[1]) THEN Undef
               ELSE BoolV(TRUE)

\* all() over [0, 2] and over [2, 0] (an error before and after the false
\* element), by the helper and by the compiled macro.
C15_Witness ==
    /\ rt.op = "all" /\ rt.in[1] = ListV(<<IntV(0), IntV(2)>>) /\ rt.r = BoolV(FALSE)
    /\ call.called /\ compiled.ast = AllExpr /\ call.result = BoolV(FALSE)

OutcomeOfFirstCall(c, arg) ==
    LET rq == resolveQB(c, arg, NoArgument, defaultQualifiedBindings)
        args == [i \in 1..Len(c.bindingNames) |->
                    resolveBinding(c.container, c.bindingNames[i], arg, rq.qb)]
    IN  checkResult(compiledFn(c.program, rq.qb, args).v)

\* C17: the outcome of evaluate(b) is a function of the contents of b alone:
\* whatever calls came before on the closure, with whatever objects, it is
\* the outcome the contents give on a closure that was never called.
C17_OutcomeFromContents ==
    call.called => call.outcome = OutcomeOfFirstCall(compiled, call.arg)

\* C18 as stated: an evaluate call leaves every variable the closure
\* captured as it was.
C18_NoStateChange ==
    [][/\ compiled' = compiled
       /\ cachedBindingsArg' = cachedBindingsArg
       /\ cachedBindings' = cachedBindings]_vars

\* C18: an evaluate call leaves what compile() built (program, manifest,
\* container, qualified paths) as it was; the only closure variables it
\* writes are the two of the memo, and only when it is passed a non-empty
\* record: they then hold that argument and the record derived from it.
C18_OnlyMemoWritten ==
    [][/\ compiled' = compiled
       /\ <<cachedBindingsArg', cachedBindings'>> # <<cachedBindingsArg, cachedBindings>> =>
             /\ call'.arg.given /\ DOMAIN call'.arg.b # {}
             /\ cachedBindingsArg' = call'.arg
             /\ cachedBindings' =
                   populateQualifiedBindings(compiled.container, compiled.qualifiedBindings,
                       call'.arg.b @@ defaultQualifiedBindings, call'.arg)]_vars

\* An evaluate call with a non-empty record has written the memo.
C18_Witness ==
    /\ call.called /\ call.arg.given /\ DOMAIN call.arg.b # {}
    /\ cachedBindingsArg = call.arg
    /\ cachedBindings # defaultQualifiedBindings

\* The literal Name{entries} sets field (to value, for the last entry).
ExplicitlySet(entries, field) == \E i \in 1..Len(entries) : entries[i][1] = field
StoredValue(entries, field) ==
    entries[CHOOSE i \in 1..Len(entries) :
                /\ entries[i][1] = field
                /\ \A j \in (i + 1)..Len(entries) : entries[j][1] # field][2]

\* The default of the type of a scalar field.
TypeDefault(field) ==
    CASE field \in {"single_int64", "single_nested_enum"} -> IntV(0)
      [] field \in {"single_bool", "oneof_bool"} -> BoolV(FALSE)
      [] field = "single_string" -> StrV("")

AgreeOnFirstBits(a, b, n) ==
    /\ \A i \in 1..(n \div 8) : a[i] = b[i]
    /\ n % 8 # 0 =>
          a[(n \div 8) + 1] \div 2^(8 - (n % 8)) = b[(n \div 8) + 1] \div 2^(8 - (n % 8))

\* C20: c.containsIP(x) is true if and only if x has the address family of c
\* and agrees with the address of c on the first prefixLength bits; it is
\* false, not an error, when the families differ.
C20_ContainsIP ==
    (rt.op = "containsIP" /\ isCelIP(rt.in[2])) =>
        LET c == rt.in[1]
            x == rt.in[2]
        IN  rt.r = BoolV(/\ Len(x.bytes) = Len(c.ip.bytes)
                         /\ AgreeOnFirstBits(x.bytes, c.ip.bytes, c.prefix))

\* 192.168.0.0/24 contains 192.168.0.42.
C20_Witness ==
    /\ rt.op = "containsIP"
    /\ rt.in = <<CidrV(IpV(<<192, 168, 0, 0>>), 24), IpV(<<192, 168, 0, 42>>)>>
    /\ rt.r = BoolV(TRUE)

\* The items a comprehension visits, in iteration order.
ItemsOf(range) ==
    IF isList(range) THEN range.l ELSE [i \in 1..Len(range.m) |-> range.m[i][1]]

\* Field c of the object the loop condition looks at: the accumulator or
\* the element.
ConditionAt(condFn, elem, accu) ==
    LET o == IF condFn.body.arguments[1].name = "acc" THEN accu.o ELSE elem.o
    IN  IF "c" \in DOMAIN o THEN o["c"] ELSE Undef

RECURSIVE Visit(_, _, _)

\* What the comprehension gives from the items still to visit: the value and
\* whether result is called for it.
Visit(items, accu, condFn) ==
    IF items = <<>> THEN [v |-> accu, result |-> TRUE]
    ELSE LET cond == ConditionAt(condFn, Head(items), accu)
         IN  IF cond = BoolV(FALSE) THEN [v |-> accu, result |-> TRUE]
             ELSE IF cond = BoolV(TRUE) THEN Visit(Tail(items), Head(items), condFn)
             ELSE [v |-> Undef, result |-> FALSE]

\* C21: a comprehension over a list or map visits the elements in order and
\* tests the loop condition before each: false stops and gives result(accu),
\* neither true nor false gives the error sentinel without calling result,
\* true replaces accu by the step's value; after the last element it gives
\* result(accu).  A range that is neither a list nor a map gives the error
\* sentinel.
C21_ComprehensionLoop ==
    rt.op = "comprehension" =>
        LET resultCalled == \E i \in 1..Len(rt.tr) : rt.tr[i] = <<"call", "dyn">>
        IN  IF isList(rt.in[1]) \/ isMap(rt.in[1])
            THEN LET expected == Visit(ItemsOf(rt.in[1]), rt.in[2], rt.in[3])
                 IN  rt.r = expected.v /\ resultCalled = expected.result
            ELSE rt.r = Undef /\ ~resultCalled

\* A list of two elements, true and missing c, under the condition on the
\* accumulator: the loop runs to the end and gives the last element.
C21_Witness ==
    /\ rt.op = "comprehension"
    /\ rt.in[1] = ListV(<<ObjV(Rec1("c", BoolV(TRUE)) @@ Rec1("d", IntV(1))),
                          ObjV(EmptyRec)>>)
    /\ rt.in[2] = ObjV(Rec1("c", BoolV(TRUE)))
    /\ rt.in[3].body.arguments[1].name = "acc"
    /\ rt.r = ObjV(EmptyRec)

\* C22: for every range and every sequence of predicate outcomes (true,
\* false, error, not a bool) the direct-loop filter returns what the generic
\* comprehension returns with an empty-list accumulator, an always-true loop
\* condition and a step that appends the element when the predicate is true.
C22_FilterFastPath ==
    (rt.op \in {"filterList", "comprehension"} /\ rt.fast.done /\ rt.generic.done) =>
        rt.fast.v = rt.generic.v

\* Both have run over a list with a false and a true element.
C22_Witness ==
    /\ rt.op \in {"filterList", "comprehension"} /\ rt.fast.done /\ rt.generic.done
    /\ rt.in[1] = ListV(<<ObjV(Rec1("c", BoolV(FALSE))), ObjV(Rec1("c", BoolV(TRUE)))>>)
    /\ rt.fast.v = ListV(<<ObjV(Rec1("c", BoolV(TRUE)))>>)

\* A duration is normalized: its total nanoseconds fit in int64, its nanos
\* are below a second in magnitude and never of the sign opposite to seconds.
Normalized(d) ==
    /\ inInt64Range(d.seconds * NanosPerSecond + d.nanos)
    /\ Abs(d.nanos) < NanosPerSecond
    /\ ~(d.nanos < 0 /\ d.seconds > 0)
    /\ ~(d.nanos > 0 /\ d.seconds < 0)

\* C23: every duration that duration(string), duration + duration,
\* duration - duration or timestamp - timestamp returns is normalized; the
\* other outcome of these operations is the error sentinel.
C23_DurationNormalized ==
    (/\ rt.op \in {"duration", "add", "sub"}
     /\ \/ rt.op = "duration"
        \/ isCelDuration(rt.in[1]) /\ isCelDuration(rt.in[2])
        \/ isCelTimestamp(rt.in[1]) /\ isCelTimestamp(rt.in[2]))
    => (rt.r = Undef \/ (isCelDuration(rt.r) /\ Normalized(rt.r)))

\* The part of C23 about arithmetic: the sum and the difference of two
\* durations and the difference of two timestamps are normalized or the error.
C23_ArithmeticNormalized ==
    (/\ rt.op \in {"add", "sub"}
     /\ \/ isCelDuration(rt.in[1]) /\ isCelDuration(rt.in[2])
        \/ isCelTimestamp(rt.in[1]) /\ isCelTimestamp(rt.in[2]) /\ rt.op = "sub")
    => (rt.r = Undef \/ (isCelDuration(rt.r) /\ Normalized(rt.r)))

\* A signed decimal integer spelling: an optional sign and one or more
\* decimal digits.
IsSignedDecimal(s) ==
    IF s # <<>> /\ Head(s) \in {"+", "-"} THEN IsDigitsOf(Tail(s), 10) ELSE IsDigitsOf(s, 10)

SignedDecimalValue(s) ==
    IF Head(s) = "-" THEN -RadixDigitsValue(Tail(s), 10)
    ELSE IF Head(s) = "+" THEN RadixDigitsValue(Tail(s), 10)
    ELSE RadixDigitsValue(s, 10)

\* C24: int(s) of a string is the integer s spells when s is a signed
\* decimal integer within the int range, and the error sentinel for every
\* other string.
C24_IntOfString ==
    (rt.op = "toInt" /\ isStr(rt.in[1])) =>
        LET s == rt.in[1].s
        IN  IF IsSignedDecimal(s) /\ inInt64Range(SignedDecimalValue(s))
            THEN rt.r = IntV(SignedDecimalValue(s))
            ELSE rt.r = Undef

\* The part of C24 that holds: a signed decimal spelling gives its value
\* when in range and the error otherwise; a string with a point or an
\* exponent after a decimal digit gives the error.
C24_DecimalStrings ==
    (rt.op = "toInt" /\ isStr(rt.in[1])) =>
        LET s == rt.in[1].s
        IN  /\ IsSignedDecimal(s) =>
                 rt.r = (IF inInt64Range(SignedDecimalValue(s))
                         THEN IntV(SignedDecimalValue(s)) ELSE Undef)
            /\ (\E i \in 1..Len(s) : s[i] = ".") => rt.r = Undef
            /\ (s # <<>> /\ IsDigit(Head(s)) /\ Len(s) >= 2 /\ s[2] = "e") => rt.r = Undef

\* The identifiers that occur free in an expression: every identifier but
\* the iterVar and accuVar of an enclosing comprehension, inside that
\* comprehension's loop condition, step and result.
RECURSIVE FreeIdentifiers(_, _)
RECURSIVE FreeIdentifiersOfArgs(_, _)

FreeIdentifiersOfArgs(args, bound) ==
    IF args = <<>> THEN {}
    ELSE FreeIdentifiers(Head(args), bound) \cup FreeIdentifiersOfArgs(Tail(args), bound)

FreeIdentifiers(e, bound) ==
    CASE e.kind = "Ident" -> {e.name} \ bound
      [] e.kind = "Select" -> FreeIdentifiers(e.operand, bound)
      [] e.kind = "Call" -> FreeIdentifiersOfArgs(e.args, bound)
      [] e.kind = "Comprehension" ->
            LET inner == bound \cup {e.iterVar, e.accuVar}
            IN  FreeIdentifiers(e.iterRange, bound)
                \cup FreeIdentifiers(e.accuInit, bound)
                \cup FreeIdentifiers(e.loopCondition, inner)
                \cup FreeIdentifiers(e.loopStep, inner)
                \cup FreeIdentifiers(e.result, inner)
      [] OTHER -> {}

\* The identifiers free outside the loop condition, step and result of
\* every comprehension.
RECURSIVE OuterIdentifiers(_)
RECURSIVE OuterIdentifiersOfArgs(_)

OuterIdentifiersOfArgs(args) ==
    IF args = <<>> THEN {}
    ELSE OuterIdentifiers(Head(args)) \cup OuterIdentifiersOfArgs(Tail(args))

OuterIdentifiers(e) ==
    CASE e.kind = "Ident" -> {e.name}
      [] e.kind = "Select" -> OuterIdentifiers(e.operand)
      [] e.kind = "Call" -> OuterIdentifiersOfArgs(e.args)
      [] e.kind = "Comprehension" ->
            OuterIdentifiers(e.iterRange) \cup OuterIdentifiers(e.accuInit)
      [] OTHER -> {}

SeqRange(q) == {q[i] : i \in 1..Len(q)}

\* C25: every identifier free in the expression is in the binding manifest
\* transform returns and is a parameter of the emitted function, also when
\* it occurs only in a comprehension's loop condition, step or result.
C25_FreeIdentifiersInManifest ==
    rt.op = "transform" =>
        \A name \in FreeIdentifiers(rt.in[1], {}) :
            /\ name \in SeqRange(rt.r.bindings)
            /\ name \in SeqRange(rt.r.program.params)

\* The part of C25 that holds: the identifiers outside the loop condition,
\* step and result of every comprehension are in the manifest and are
\* parameters, and the manifest holds free identifiers only.
C25_OuterIdentifiersInManifest ==
    rt.op = "transform" =>
        /\ \A name \in OuterIdentifiers(rt.in[1]) :
              /\ name \in SeqRange(rt.r.bindings)
              /\ name \in SeqRange(rt.r.program.params)
        /\ SeqRange(rt.r.bindings) \subseteq FreeIdentifiers(rt.in[1], {})

\* What a comprehension of ShadowExprs denotes over the list xs when v.f and
\* acc.f are fields of the current element and of the current accumulator.
FieldOfVariable(ast, b) ==
    LET xs == b["xs"].l
    IN  IF ast = LastFieldExpr
        THEN (IF xs = <<>> THEN IntV(0) ELSE celSelect(xs[Len(xs)], "f"))
        ELSE IF ast = FieldOfLastExpr
        THEN celSelect(IF xs = <<>> THEN b["a0"] ELSE xs[Len(xs)], "f")
        ELSE celExists(b["xs"], [v \in ShadowElems |-> celEq(celSelect(v, "f"), IntV(1))])

\* C26: in a comprehension body v.f and acc.f are field f of the current
\* value of the iteration variable and of the accumulator, whatever the
\* caller's bindings hold under the keys "v.f" and "acc.f".
C26_FieldOfComprehensionVariable ==
    call.called => call.result = FieldOfVariable(compiled.ast, call.arg.b)

\* The part of C26 that holds: without a dotted key of the variable's
\* spelling among the bindings, also when the caller binds the name v itself.
C26_FieldWithoutDottedKey ==
    (call.called /\ DOMAIN call.arg.b \cap {"v.f", "acc.f"} = {}) =>
        call.result = FieldOfVariable(compiled.ast, call.arg.b)

ReadsOf(trace, name) == Cardinality({i \in 1..Len(trace) : trace[i] = <<"read", name>>})

\* How often the identifier occurs in the expression, and the number of
\* nodes of the expression.
RECURSIVE OccurrencesOf(_, _)
RECURSIVE OccurrencesInArgs(_, _)
RECURSIVE NodeCount(_)
RECURSIVE NodeCountOfArgs(_)

OccurrencesInArgs(args, name) ==
    IF args = <<>> THEN 0
    ELSE OccurrencesOf(Head(args), name) + OccurrencesInArgs(Tail(args), name)

OccurrencesOf(e, name) ==
    CASE e.kind = "Ident" -> (IF e.name = name THEN 1 ELSE 0)
      [] e.kind = "Call" -> OccurrencesInArgs(e.args, name)
      [] OTHER -> 0

NodeCountOfArgs(args) ==
    IF args = <<>> THEN 0 ELSE NodeCount(Head(args)) + NodeCountOfArgs(Tail(args))

NodeCount(e) == IF e.kind = "Call" THEN 1 + NodeCountOfArgs(e.args) ELSE 1

\* C28: one evaluation of an expression built from ! and ?: evaluates every
\* condition and operand once: it reads an identifier at most as often as
\* the identifier occurs in the expression, and all its reads are at most
\* as many as the expression has nodes.
C28_EvaluatedOnce ==
    call.called =>
        /\ \A name \in {"p", "q", "r"} :
              ReadsOf(call.trace, name) <= OccurrencesOf(compiled.ast, name)
        /\ Len(call.trace) <= NodeCount(compiled.ast)

\* What holds instead: every ! and ?: evaluates its operand or condition at
\* most twice, so under n of them an identifier is read at most 2^n times
\* per occurrence.
C28_AtMostDoubledPerLevel ==
    call.called =>
        \A name \in {"p", "q", "r"} :
            ReadsOf(call.trace, name) <= (2 ^ MaxNest) * OccurrencesOf(compiled.ast, name)

\* !!!p with p no bool reads p eight times.
C28_ExponentialReads ==
    /\ call.called
    /\ compiled.ast = Call("!_", <<Call("!_", <<Call("!_", <<Ident("p")>>)>>)>>)
    /\ ReadsOf(call.trace, "p") = 8

\* C29: the name next() returns was returned by no earlier call of the same
\* allocator.
C29_TempNamesDistinct ==
    rt.op = "next" =>
        \A i \in 1..(Len(rt.temps.used) - 1) : rt.temps.used[i] # rt.r.s

\* What holds instead: the names of the first 26 + 26 * 26 calls are distinct.
C29_DistinctBelowThreeChars ==
    (rt.op = "next" /\ Len(rt.temps.used) <= 26 + 26 * 26) =>
        \A i \in 1..(Len(rt.temps.used) - 1) : rt.temps.used[i] # rt.r.s

\* C30: the temporaries of the compiled expression and the parameters _rt
\* and _qb are no binding names of its manifest, and the emitted function
\* declares no name twice.
C30_NamesDisjoint ==
    rt.op = "transform" =>
        /\ SeqRange(rt.r.bindings) \cap (SeqRange(rt.r.temps) \cup {"_rt", "_qb"}) = {}
        /\ \A i, j \in 1..Len(rt.r.program.params) :
              rt.r.program.params[i] = rt.r.program.params[j] => i = j
        /\ SeqRange(rt.r.program.params) \cap SeqRange(rt.r.program.lets) = {}

\* What holds instead: the names are disjoint when no identifier of the
\* expression starts with an underscore.
C30_DisjointWithoutUnderscore ==
    (rt.op = "transform" /\ FreeIdentifiers(rt.in[1], {}) \subseteq {"p", "q"}) =>
        /\ SeqRange(rt.r.bindings) \cap (SeqRange(rt.r.temps) \cup {"_rt", "_qb"}) = {}
        /\ \A i, j \in 1..Len(rt.r.program.params) :
              rt.r.program.params[i] = rt.r.program.params[j] => i = j
        /\ SeqRange(rt.r.program.params) \cap SeqRange(rt.r.program.lets) = {}

=============================================================================
